---- MODULE Spec2Model ----
(***************************************************************************)
(* A model of the real-time coordination layer of the Raspberry Pi smart   *)
(* parking controller (src/raspberry_pi_parking): the IR-sensor slot       *)
(* monitor (slot_handler.py), the dual barrier controller with its         *)
(* auto-close watchdog (barrier_handler.py) and the QR detection cooldown  *)
(* gate of the two camera threads (camera_handler.py).                     *)
(*                                                                         *)
(* Time is counted in whole seconds of time.time().  Each thread of the    *)
(* program is a program counter; a step is one statement, or one critical  *)
(* section when every reader of the data takes the same lock.              *)
(***************************************************************************)
EXTENDS Integers, Sequences, FiniteSets, TLC

(***************************************************************************)
(* Configuration (config.py)                                               *)
(***************************************************************************)
NUM_REAL_SENSORS == 6

TOTAL_SLOTS == 20

REAL_SLOT_MAPPING == [i \in 0..5 |-> <<2, 5, 8, 12, 15, 18>>[i + 1]]

IR_ACTIVE_LOW == TRUE

BARRIER_OPEN_DURATION == 5

QR_COOLDOWN_SECONDS == 5

(* GPIO levels of MockGPIO / RPi.GPIO *)
LOW == 0

HIGH == 1

(***************************************************************************)
(* Bounds of the model                                                     *)
(***************************************************************************)
\* value of time.time() when the process starts (seconds since the epoch)
BootTime == 10

\* seconds of wall-clock time the model follows after the start
MaxElapsed == 6

\* messages the model lets the broker deliver
MaxMessages == 2

Lanes == {"entry", "exit"}

MQTT_TOPIC_DOOR_OPEN == "door_open"

BARRIER_CLOSED_ANGLE == 0

BARRIER_OPEN_ANGLE == 90

VARIABLES
    \* ---- SlotHandler ----
    slot_phase,            \* main thread's progress: constructed / setup / started / stopped
    slot_running,          \* SlotHandler.running (Event)
    real_slot_states,      \* SlotHandler.real_slot_states, index 0..N-1
    virtual_slot_states,   \* SlotHandler.virtual_slot_states, index 0..TOTAL-1
    slot_lock,             \* SlotHandler.lock: "free" or its holder
    mon_pc,                \* position of the _monitor_sensors thread
    mon_i,                 \* loop index i of the sensor read loop
    state_changed,         \* local state_changed of the current poll cycle
    cb_count,              \* history: callbacks invoked in the current cycle
    cb_arg,                \* history: argument of the last callback invocation
    last_snapshot,         \* history: table returned by the last get_slot_states
                           \* call since a sensor change was last detected
                           \* (<<>>: no call since then)
    \* ---- clock ----
    now,                   \* time.time(), in seconds
    \* ---- BarrierHandler ----
    bar_phase,             \* main thread's progress through setup/start/cleanup
    bar_running,           \* BarrierHandler.running (Event)
    barrier_open,          \* entry_open / exit_open, by lane
    barrier_timer,         \* entry_timer / exit_timer, by lane (0 = unset)
    barrier_lock,          \* BarrierHandler.lock: "free" or the holding thread
    servo_angle,           \* last angle each servo was driven to (-1: never)
    call_pc,               \* per thread: position inside open_barrier/close_barrier
    call_lane,             \* per thread: barrier_type argument of that call
    wd_pc,                 \* position of the _auto_close_handler thread
    wd_lane,               \* lane the watchdog is looking at
    wd_time,               \* current_time of the watchdog's pass
    opened_t,              \* history: time of the last completed open per lane,
                           \* 0 if none or a cleanup close came after it
    results_failed,        \* history: values returned by the calls whose
                           \* actuation raised, since a call was last entered
    \* ---- CameraHandler ----
    cam_phase,             \* main thread's progress through setup/start/cleanup
    cam_running,           \* CameraHandler.running (Event)
    last_qr_times,         \* CameraHandler.last_qr_times, by camera_type
    cooldown_lock,         \* CameraHandler.cooldown_lock: "free" or its holder
    cam_pc,                \* position of each _monitor_camera thread
    cam_time,              \* current_time of each thread's frame (0: none)
    last_admit,            \* history: frame time of the last callback per channel
    prev_admit,            \* history: frame time of the callback before that
    qr_connected,          \* history: channel -> what connected.is_set()
                           \* gave that detection's publish call
    qr_codes,              \* channel -> payloads of the QR codes decoded in
                           \* the frame, in pyzbar's order
    qr_data,               \* channel -> payload of the QR code being handled
    qr_opened,             \* history: channel -> <<lane, user>> of the
                           \* open_barrier calls made for that detection
    qr_attempts,           \* history: channel -> publish_qr_detected calls
                           \* made for that detection
    qr_published,          \* history: channel -> events handed to the client
    cam_failed,            \* history: channel -> an error occurred since the
                           \* thread was last at the top of its loop
    \* ---- MQTTHandler and the door-command callback ----
    mq_phase,              \* main thread's progress: which components exist
    mq_pc,                 \* position of the MQTT network-loop thread
    mq_msg,                \* the message that thread is working on
    messages_received,     \* MQTTHandler.messages_received
    door_cb_count,         \* history: callback invocations for mq_msg
    door_cb_args,          \* history: arguments of the last of them
    open_requests,         \* history: open_barrier calls made for mq_msg
    lcd,                   \* history: display call made for mq_msg
    disp_available,        \* DisplayHandler.display_available
    disp_lock,             \* DisplayHandler.lock: "free" or its holder
    open_outcome,          \* history: what the open_barrier call made for
                           \* mq_msg did ("not_called" if none was made)
    open_moved_results,    \* history: values on_door_command received from
                           \* open_barrier calls that moved the barrier
    open_failed_results,   \* history: values it received from calls whose
                           \* actuation raised
    main_pc,               \* position of the main thread in main()
    main_step,             \* the component setup() or stop() has come to
    acquired,              \* the driver handles that have been opened
    released,              \* handle -> number of times it was released
    steps_run,             \* history: cleanup steps stop() has entered
    failed_steps,          \* history: cleanup steps in which a call raised
    signals,               \* SIGINT / SIGTERM delivered so far
    trigger,               \* history: what set the shutdown off
    sig_in_stop,           \* history: a signal arrived while stop() ran
    setup_log,             \* history: components whose setup() was called
    failed_setup,          \* history: the component whose setup() failed
    threads_started,       \* the polling threads start() has launched
    exit_status,           \* the status the process exited with
    connected,             \* MQTTHandler.connected (threading.Event)
    messages_published,    \* MQTTHandler.messages_published
    client_out,            \* history: messages client.publish accepted, in
                           \* the order of the calls
    pub_calls,             \* history: publish_* calls made so far
    pub_returns,           \* history: call number -> value returned
    dropped_calls,         \* history: calls made with connected clear
    pub_main,              \* position of the main thread in setup() / start()
    pub_real,              \* the sensor states the monitor stored last
    pub_virtual,           \* the slot table written from them
    table_ver,             \* history: how many times the table was rewritten
    init_snapshot,         \* start(): initial_states
    init_ver,              \* history: table_ver when it was copied
    mon_notify,            \* the monitor thread: "idle" or in its callback
    cb_snapshot,           \* the copy of the table the callback was given
    cb_ver,                \* history: table_ver when it was copied
    notified,              \* history: <<ver, snapshot>> of each notification
    forwarded,             \* history: <<ver, snapshot>> of each
                           \* publish_slot_status call made by the callback
    qr_pub_calls           \* history: publish_qr_detected calls made

slotVars == <<slot_phase, slot_running, real_slot_states, virtual_slot_states,
              slot_lock, mon_pc, mon_i, state_changed, cb_count, cb_arg,
              last_snapshot>>

barVars == <<bar_phase, bar_running, barrier_open, barrier_timer, barrier_lock,
             servo_angle, call_pc, call_lane, wd_pc, wd_lane, wd_time, opened_t,
             results_failed>>

camVars == <<cam_phase, cam_running, last_qr_times, cooldown_lock, cam_pc,
             cam_time, last_admit, prev_admit, qr_connected, qr_codes, qr_data,
             qr_opened, qr_attempts, qr_published, cam_failed>>

\* the detection callback's part of the camera state
detVars == <<qr_connected, qr_codes, qr_data, qr_opened, qr_attempts,
             qr_published>>

mqVars == <<mq_phase, mq_pc, mq_msg, messages_received, door_cb_count,
            door_cb_args, open_requests, lcd, disp_available, disp_lock,
            open_outcome, open_moved_results, open_failed_results>>

pubVars == <<connected, messages_published, client_out, pub_calls, pub_returns,
             dropped_calls, pub_main, pub_real, pub_virtual, table_ver,
             init_snapshot, init_ver, mon_notify, cb_snapshot, cb_ver,
             notified, forwarded, qr_pub_calls>>


shutVars == <<main_pc, main_step, acquired, released, steps_run, failed_steps,
              signals, trigger, sig_in_stop, setup_log, failed_setup,
              threads_started, exit_status>>

vars == <<slotVars, now, barVars, camVars, mqVars, shutVars, pubVars>>

\* what the steps of one component leave alone
notSlotVars == <<now, barVars, camVars, mqVars, shutVars, pubVars>>

notBarVars == <<slotVars, camVars, mqVars, shutVars, pubVars>>

notCamVars == <<slotVars, barVars, mqVars, shutVars, pubVars>>

notMqVars == <<slotVars, now, barVars, camVars, shutVars, pubVars>>

notPubVars == <<slotVars, now, barVars, camVars, mqVars, shutVars>>

notShutVars == <<slotVars, now, barVars, camVars, mqVars, pubVars>>

(***************************************************************************)
(* SlotHandler: pure parts                                                 *)
(***************************************************************************)
Sensors == 0..(NUM_REAL_SENSORS - 1)

SlotIndexes == 0..(TOTAL_SLOTS - 1)

\* lines 136-139: the occupied value of a raw pin level
IsOccupied(pin_state) ==
    IF IR_ACTIVE_LOW THEN pin_state = LOW ELSE pin_state = HIGH

\* _update_virtual_slots with the default of unmapped slots inverted
UpdateVirtualSlotsDefaultFree(real) ==
    [idx \in SlotIndexes |->
        IF \E i \in Sensors : REAL_SLOT_MAPPING[i] - 1 = idx
        THEN real[CHOOSE i \in Sensors : REAL_SLOT_MAPPING[i] - 1 = idx]
        ELSE FALSE]

\* _update_virtual_slots: all slots occupied, then every sensor's stored state
\* written to its slot (later sensors overwrite earlier ones)
RECURSIVE MapSensors(_, _, _)
MapSensors(table, real, i) ==
    IF i = NUM_REAL_SENSORS THEN table
    ELSE LET slot_index == REAL_SLOT_MAPPING[i] - 1
             next == IF 0 <= slot_index /\ slot_index < TOTAL_SLOTS
                     THEN [table EXCEPT ![slot_index] = real[i]]
                     ELSE table
         IN MapSensors(next, real, i + 1)

UpdateVirtualSlots(real) ==
    MapSensors([idx \in SlotIndexes |-> TRUE], real, 0)

\* get_available_slots: slot numbers of the free entries, in table order
RECURSIVE AvailableFrom(_, _)
AvailableFrom(table, i) ==
    IF i = TOTAL_SLOTS THEN <<>>
    ELSE (IF ~table[i] THEN <<i + 1>> ELSE <<>>) \o AvailableFrom(table, i + 1)

get_available_slots == AvailableFrom(virtual_slot_states, 0)

\* get_slot_states: a copy of the table
get_slot_states == virtual_slot_states

\* line 205: sum() over the first n entries of a table of booleans, True
\* counting 1 and False 0
RECURSIVE SumOf(_, _)
SumOf(table, n) ==
    IF n = 0 THEN 0
    ELSE SumOf(table, n - 1) + (IF table[n - 1] THEN 1 ELSE 0)

\* get_occupancy_summary with the free entries counted as the occupied ones
OccupancySummaryCountsFree(table) ==
    LET occupied_count == TOTAL_SLOTS - SumOf(table, TOTAL_SLOTS)
        available_count == TOTAL_SLOTS - occupied_count
    IN [total |-> TOTAL_SLOTS,
        occupied |-> occupied_count,
        available |-> available_count,
        occupancy_rate |-> <<occupied_count * 100, TOTAL_SLOTS>>]

\* lines 204-213: the summary of a table; occupancy_rate is kept as the
\* fraction <<numerator, denominator>> whose quotient the code returns
OccupancySummary(table) ==
    LET occupied_count == SumOf(table, TOTAL_SLOTS)
        available_count == TOTAL_SLOTS - occupied_count
    IN [total |-> TOTAL_SLOTS,
        occupied |-> occupied_count,
        available |-> available_count,
        occupancy_rate |-> <<occupied_count * 100, TOTAL_SLOTS>>]

\* get_occupancy_summary(), read under the lock
get_occupancy_summary == OccupancySummary(virtual_slot_states)

(***************************************************************************)
(* SlotHandler: construction, setup, start                                 *)
(***************************************************************************)
SlotInit ==
    /\ slot_phase = "constructed"
    /\ slot_running = FALSE
    /\ real_slot_states = [i \in Sensors |-> FALSE]
    /\ virtual_slot_states = [idx \in SlotIndexes |-> TRUE]
    /\ slot_lock = "free"
    /\ mon_pc = "not_started"
    /\ mon_i = 0
    /\ state_changed = FALSE
    /\ cb_count = 0
    /\ cb_arg = <<>>
    /\ last_snapshot = <<>>

\* setup(): every sensor read once, then the table rewritten
SlotSetup ==
    /\ slot_phase = "constructed"
    /\ \E pins \in [Sensors -> {LOW, HIGH}] :
          /\ real_slot_states' = [i \in Sensors |-> IsOccupied(pins[i])]
          /\ virtual_slot_states' = UpdateVirtualSlots(real_slot_states')
    /\ slot_phase' = "setup_ok"
    /\ UNCHANGED <<slot_running, slot_lock, mon_pc, mon_i, state_changed,
                   cb_count, cb_arg>>
    /\ UNCHANGED last_snapshot
    /\ UNCHANGED notSlotVars

\* setup() when GPIO.input raises at sensor k: sensors before k are stored, the
\* table is not rewritten, setup returns False and main() exits
SlotSetupFails ==
    /\ slot_phase = "constructed"
    /\ \E k \in Sensors, pins \in [Sensors -> {LOW, HIGH}] :
          /\ \A i \in Sensors : i >= k => pins[i] = HIGH
          /\ real_slot_states' =
                [i \in Sensors |-> IF i < k THEN IsOccupied(pins[i])
                                   ELSE real_slot_states[i]]
    /\ slot_phase' = "setup_failed"
    /\ UNCHANGED <<slot_running, virtual_slot_states, slot_lock, mon_pc, mon_i,
                   state_changed, cb_count, cb_arg>>
    /\ UNCHANGED last_snapshot
    /\ UNCHANGED notSlotVars

\* start(): running.set() and the monitor thread started
SlotStart ==
    /\ slot_phase = "setup_ok"
    /\ slot_phase' = "started"
    /\ slot_running' = TRUE
    /\ mon_pc' = "loop"
    /\ UNCHANGED <<real_slot_states, virtual_slot_states, slot_lock, mon_i,
                   state_changed, cb_count, cb_arg>>
    /\ UNCHANGED last_snapshot
    /\ UNCHANGED notSlotVars

(***************************************************************************)
(* SlotHandler._monitor_sensors                                            *)
(***************************************************************************)
\* line 125-130: loop test, state_changed = False, lock acquired
MonLoopTop ==
    /\ mon_pc = "loop"
    /\ IF slot_running
       THEN /\ slot_lock = "free"
            /\ slot_lock' = "monitor"
            /\ mon_pc' = "read"
            /\ mon_i' = 0
            /\ state_changed' = FALSE
            /\ cb_count' = 0
       ELSE /\ mon_pc' = "done"
            /\ UNCHANGED <<slot_lock, mon_i, state_changed, cb_count>>
    /\ UNCHANGED <<slot_phase, slot_running, real_slot_states,
                   virtual_slot_states, cb_arg>>
    /\ UNCHANGED last_snapshot
    /\ UNCHANGED notSlotVars

\* where the cycle goes once the read loop is over (line 153)
AfterReadLoop(changed) == IF changed THEN "update" ELSE "sleep"

\* lines 131-150: one iteration of the read loop, under the lock
MonReadSensor ==
    /\ mon_pc = "read"
    /\ slot_lock = "monitor"
    /\ \E pin_state \in {LOW, HIGH} :
          LET is_occupied == IsOccupied(pin_state)
              differs == is_occupied # real_slot_states[mon_i]
              changed == state_changed \/ differs
          IN /\ real_slot_states' =
                    IF differs
                    THEN [real_slot_states EXCEPT ![mon_i] = is_occupied]
                    ELSE real_slot_states
             /\ state_changed' = changed
             /\ last_snapshot' = IF differs THEN <<>> ELSE last_snapshot
             /\ IF mon_i + 1 < NUM_REAL_SENSORS
                THEN /\ mon_i' = mon_i + 1
                     /\ UNCHANGED <<mon_pc, slot_lock>>
                ELSE /\ mon_i' = 0
                     /\ slot_lock' = "free"
                     /\ mon_pc' = AfterReadLoop(changed)
    /\ UNCHANGED <<slot_phase, slot_running, virtual_slot_states, cb_count,
                   cb_arg>>
    /\ UNCHANGED notSlotVars

\* main.py line 188 and any other caller of get_slot_states(), lines 183-186:
\* the lock taken, a copy of the table returned, the lock released; callers run
\* beside the monitor thread once start() has launched it
GetSlotStatesCall ==
    /\ slot_phase = "started"
    /\ slot_lock = "free"
    /\ last_snapshot' = get_slot_states
    /\ UNCHANGED <<slot_phase, slot_running, real_slot_states,
                   virtual_slot_states, slot_lock, mon_pc, mon_i,
                   state_changed, cb_count, cb_arg>>
    /\ UNCHANGED notSlotVars

\* line 133 raising: the with-block releases the lock, the except clause of
\* line 163 logs and sleeps; what was stored before stays stored
MonReadFails ==
    /\ mon_pc = "read"
    /\ slot_lock = "monitor"
    /\ slot_lock' = "free"
    /\ mon_pc' = "err_sleep"
    /\ mon_i' = 0
    /\ UNCHANGED <<slot_phase, slot_running, real_slot_states,
                   virtual_slot_states, state_changed, cb_count, cb_arg>>
    /\ UNCHANGED last_snapshot
    /\ UNCHANGED notSlotVars

\* line 154: _update_virtual_slots(), one critical section
MonUpdate ==
    /\ mon_pc = "update"
    /\ slot_lock = "free"
    /\ virtual_slot_states' = UpdateVirtualSlots(real_slot_states)
    /\ mon_pc' = "callback"
    /\ UNCHANGED <<slot_phase, slot_running, real_slot_states, slot_lock,
                   mon_i, state_changed, cb_count, cb_arg>>
    /\ UNCHANGED last_snapshot
    /\ UNCHANGED notSlotVars

\* lines 157-158: the callback invoked with a copy of the table
MonCallback ==
    /\ mon_pc = "callback"
    /\ cb_arg' = virtual_slot_states
    /\ cb_count' = cb_count + 1
    /\ mon_pc' = "sleep"
    /\ UNCHANGED <<slot_phase, slot_running, real_slot_states,
                   virtual_slot_states, slot_lock, mon_i, state_changed>>
    /\ UNCHANGED last_snapshot
    /\ UNCHANGED notSlotVars

\* line 161 / line 165: the sleep that ends a cycle
MonSleep ==
    /\ mon_pc \in {"sleep", "err_sleep"}
    /\ mon_pc' = "loop"
    /\ UNCHANGED <<slot_phase, slot_running, real_slot_states,
                   virtual_slot_states, slot_lock, mon_i, state_changed,
                   cb_count, cb_arg>>
    /\ UNCHANGED last_snapshot
    /\ UNCHANGED notSlotVars

\* cleanup(): running.clear(), then the monitor thread joined
SlotCleanup ==
    /\ slot_phase = "started"
    /\ slot_running' = FALSE
    /\ slot_phase' = "stopping"
    /\ UNCHANGED <<real_slot_states, virtual_slot_states, slot_lock, mon_pc,
                   mon_i, state_changed, cb_count, cb_arg>>
    /\ UNCHANGED last_snapshot
    /\ UNCHANGED notSlotVars

SlotCleanupJoined ==
    /\ slot_phase = "stopping"
    /\ mon_pc = "done"
    /\ slot_phase' = "stopped"
    /\ UNCHANGED <<slot_running, real_slot_states, virtual_slot_states,
                   slot_lock, mon_pc, mon_i, state_changed, cb_count, cb_arg>>
    /\ UNCHANGED last_snapshot
    /\ UNCHANGED notSlotVars

(***************************************************************************)
(* Properties of the slot monitor                                          *)
(***************************************************************************)
\* slot numbers bound to a sensor
MappedSlots == {REAL_SLOT_MAPPING[i] : i \in Sensors}

RangeOf(seq) == {seq[k] : k \in 1..Len(seq)}

\* the ascending sequence of the elements of a finite set of integers
RECURSIVE Ascending(_)
Ascending(S) ==
    IF S = {} THEN <<>>
    ELSE LET m == CHOOSE x \in S : \A y \in S : x <= y
         IN <<m>> \o Ascending(S \ {m})

\* the monitor thread is between two poll cycles (or not running)
MonBetweenCycles == mon_pc \in {"not_started", "loop", "sleep", "err_sleep", "done"}

SlotSetupDone == slot_phase \in {"setup_ok", "started", "stopping", "stopped"}

\* C1: in every reachable state of SlotHandler the virtual table has exactly
\* TOTAL_SLOTS entries, every slot that no sensor is mapped to is occupied (True)
\* and get_available_slots() never returns such a slot.
C1_UnmappedSlotsOccupied ==
    /\ DOMAIN virtual_slot_states = SlotIndexes
    /\ Cardinality(DOMAIN virtual_slot_states) = TOTAL_SLOTS
    /\ \A slot \in 1..TOTAL_SLOTS :
          slot \notin MappedSlots =>
             /\ virtual_slot_states[slot - 1] = TRUE
             /\ slot \notin RangeOf(get_available_slots)

\* a poll cycle has rewritten the table and some mapped slot is free
C1_Witness ==
    /\ mon_pc = "sleep"
    /\ cb_count = 1
    /\ \E i \in Sensors : ~virtual_slot_states[REAL_SLOT_MAPPING[i] - 1]
    /\ \E i \in Sensors : virtual_slot_states[REAL_SLOT_MAPPING[i] - 1]

\* C8: a poll cycle invokes the state-change callback if and only if some sensor
\* value read in the cycle differed from the stored one, exactly once, after the
\* table was rewritten and with a copy equal to the rewritten table; a cycle
\* without a change invokes nothing.
C8_CallbackIffChanged ==
    mon_pc \in {"sleep", "err_sleep"} =>
        /\ cb_count <= 1
        /\ (cb_count = 1) <=> state_changed
        /\ cb_count = 1 =>
              /\ cb_arg = virtual_slot_states
              /\ virtual_slot_states = UpdateVirtualSlots(real_slot_states)

\* C9: when a sensor read fails during a poll cycle, no value read earlier in
\* that cycle is stored without the table being rewritten and the change being
\* reported.
C9_NoSilentPartialUpdate ==
    (mon_pc = "err_sleep" /\ state_changed) =>
        /\ virtual_slot_states = UpdateVirtualSlots(real_slot_states)
        /\ cb_count = 1

\* C10: get_available_slots() returns, in ascending order, exactly the slot
\* numbers REAL_SLOT_MAPPING[i] of the sensors i whose last stored reading is
\* free (stated between poll cycles, after setup).
C10_AvailableAreFreeSensors ==
    (SlotSetupDone /\ MonBetweenCycles) =>
        get_available_slots =
            Ascending({REAL_SLOT_MAPPING[i] : i \in {j \in Sensors : ~real_slot_states[j]}})

\* C19: get_slot_states() returns a point-in-time copy of the virtual table:
\* any two calls with no sensor change detected between them return equal
\* tables.
C19_EqualSnapshotsWithoutChange ==
    [][(last_snapshot # <<>> /\ last_snapshot' # <<>>) =>
           last_snapshot' = last_snapshot]_vars

\* C20: get_occupancy_summary() is computed from the current virtual table:
\* total = TOTAL_SLOTS, occupied = number of occupied entries, available =
\* total - occupied; hence occupied + available = total and
\* occupied >= TOTAL_SLOTS - NUM_REAL_SENSORS.
C20_SummaryFromTable ==
    LET summary == get_occupancy_summary
    IN /\ summary.total = TOTAL_SLOTS
       /\ summary.occupied =
             Cardinality({idx \in SlotIndexes : virtual_slot_states[idx]})
       /\ summary.available = summary.total - summary.occupied
       /\ summary.occupied + summary.available = summary.total
       /\ summary.occupied >= TOTAL_SLOTS - NUM_REAL_SENSORS

\* the monitor has rewritten the table after a change and two mapped slots are
\* free
C20_Witness ==
    /\ mon_pc = "callback"
    /\ get_occupancy_summary.available = 2
    /\ get_occupancy_summary.occupied = TOTAL_SLOTS - 2

\* C21: whenever the slot lock is not held by the polling thread, the virtual
\* slot table equals the table fully recomputed from the stored physical sensor
\* states.
C21_TableMatchesSensorsWhenUnlocked ==
    (SlotSetupDone /\ slot_lock # "monitor") =>
        virtual_slot_states = UpdateVirtualSlots(real_slot_states)

\* C26: after the running flag is cleared at shutdown, the slot monitor loop
\* has exited holding no lock and leaving no partially updated shared
\* structure: the slot table agrees with the sensor states the loop stored.
C26_MonitorExitsCleanly ==
    mon_pc = "done" =>
        /\ slot_lock # "monitor"
        /\ virtual_slot_states = UpdateVirtualSlots(real_slot_states)

(***************************************************************************)
(* Clock                                                                   *)
(***************************************************************************)
ClockInit == now = BootTime

(***************************************************************************)
(* BarrierHandler                                                          *)
(***************************************************************************)
\* threads that run code of BarrierHandler
BarrierThreads == {"watchdog", "main", "cam_entry", "cam_exit", "mqtt"}

\* barrier_type values a caller of open_barrier may pass
OpenArgs(t) ==
    IF t = "cam_entry" THEN {"entry"}
    ELSE IF t = "cam_exit" THEN {"exit"}
    ELSE IF t = "mqtt" THEN {"entry", "exit", "garage"}
    ELSE {}

\* the auto-close threshold of line 202 / 208, with >= in place of >
ExpiredInclusive(current_time, timer) ==
    current_time - timer >= BARRIER_OPEN_DURATION

\* line 202 / 208: current_time - timer > BARRIER_OPEN_DURATION
Expired(current_time, timer) ==
    current_time - timer > BARRIER_OPEN_DURATION

\* close_barrier that leaves the timer as it was
TimerAfterCloseKept(timer, lane) == timer

\* close_barrier that clears the timers of both lanes
TimerAfterCloseBoth(timer, lane) == [l \in DOMAIN timer |-> 0]

\* line 180 / 187: the timer of a closed lane
TimerAfterClose(timer, lane) == [timer EXCEPT ![lane] = 0]

\* open_barrier and close_barrier have no return statement: every call, moved,
\* failed or no-op, hands None to its caller
ReturnValue == "None"

\* get_status(): taken under the lock
get_status == [lane \in Lanes |-> IF barrier_open[lane] THEN "open" ELSE "closed"]

BarrierInit ==
    /\ bar_phase = "constructed"
    /\ bar_running = FALSE
    /\ barrier_open = [lane \in Lanes |-> FALSE]
    /\ barrier_timer = [lane \in Lanes |-> 0]
    /\ barrier_lock = "free"
    /\ servo_angle = [lane \in Lanes |-> -1]
    /\ call_pc = [t \in BarrierThreads |-> "none"]
    /\ call_lane = [t \in BarrierThreads |-> "entry"]
    /\ wd_pc = "not_started"
    /\ wd_lane = "entry"
    /\ wd_time = 0
    /\ opened_t = [lane \in Lanes |-> 0]
    /\ results_failed = {}

\* passage of wall-clock time
Tick ==
    /\ now < BootTime + MaxElapsed
    /\ now' = now + 1
    /\ UNCHANGED <<slotVars, barVars, camVars, mqVars, shutVars, pubVars>>

\* whether the PWM channel of a lane has been created (lines 94, 102); before
\* that entry_pwm / exit_pwm is None and _set_servo_angle raises
PwmExists(lane) ==
    IF lane = "entry" THEN bar_phase # "constructed"
    ELSE bar_phase \notin {"constructed", "setup_entry"}

\* main.py line 153 and setup(), lines 89-96: self.barriers assigned, the entry
\* PWM channel created and _set_servo_angle(entry_pwm, closed) entered, without
\* the lock
BarrierSetupEntry ==
    /\ bar_phase = "constructed"
    /\ bar_phase' = "setup_entry"
    /\ UNCHANGED <<bar_running, barrier_open, barrier_timer, barrier_lock,
                   servo_angle, call_pc, call_lane, wd_pc, wd_lane, wd_time,
                   opened_t>>
    /\ UNCHANGED results_failed
    /\ UNCHANGED <<now, notBarVars>>

\* setup(), lines 96-104: the entry servo at the closed angle, the exit PWM
\* channel created and _set_servo_angle(exit_pwm, closed) entered
BarrierSetupExit ==
    /\ bar_phase = "setup_entry"
    /\ bar_phase' = "setup_exit"
    /\ servo_angle' = [servo_angle EXCEPT !["entry"] = BARRIER_CLOSED_ANGLE]
    /\ UNCHANGED <<bar_running, barrier_open, barrier_timer, barrier_lock,
                   call_pc, call_lane, wd_pc, wd_lane, wd_time, opened_t>>
    /\ UNCHANGED results_failed
    /\ UNCHANGED <<now, notBarVars>>

\* setup(), lines 104-107: the exit servo at the closed angle, True returned
BarrierSetup ==
    /\ bar_phase = "setup_exit"
    /\ bar_phase' = "setup_ok"
    /\ servo_angle' = [servo_angle EXCEPT !["exit"] = BARRIER_CLOSED_ANGLE]
    /\ UNCHANGED <<bar_running, barrier_open, barrier_timer, barrier_lock,
                   call_pc, call_lane, wd_pc, wd_lane, wd_time, opened_t>>
    /\ UNCHANGED results_failed
    /\ UNCHANGED <<now, notBarVars>>

\* setup() raising (lines 109-111) before the entry servo, on the entry servo
\* or on the exit servo: False returned, main() exits
BarrierSetupFails ==
    /\ bar_phase \in {"constructed", "setup_entry", "setup_exit"}
    /\ bar_phase' = "setup_failed"
    /\ UNCHANGED <<bar_running, barrier_open, barrier_timer, barrier_lock,
                   servo_angle, call_pc, call_lane, wd_pc, wd_lane, wd_time,
                   opened_t>>
    /\ UNCHANGED results_failed
    /\ UNCHANGED <<now, notBarVars>>

\* start(): running.set() and the watchdog thread started
BarrierStart ==
    /\ bar_phase = "setup_ok"
    /\ bar_phase' = "started"
    /\ bar_running' = TRUE
    /\ wd_pc' = "loop"
    /\ UNCHANGED <<barrier_open, barrier_timer, barrier_lock, servo_angle,
                   call_pc, call_lane, wd_lane, wd_time, opened_t>>
    /\ UNCHANGED results_failed
    /\ UNCHANGED <<now, notBarVars>>

(***************************************************************************)
(* BarrierHandler.open_barrier, run by a camera thread or the MQTT thread  *)
(***************************************************************************)
\* when thread t can be entering open_barrier: the camera threads run between
\* start() and the joins of CameraHandler.cleanup(); the MQTT network thread
\* runs from MQTTHandler.setup(), which precedes the barrier setup, to
\* MQTTHandler.cleanup(), the last step of stop(), and on_door_command calls
\* open_barrier as soon as self.barriers is assigned (main.py lines 96, 153)
MayCallOpen(t) ==
    IF t = "mqtt"
    THEN bar_phase \notin {"constructed", "setup_failed", "stopped"}
    ELSE bar_phase = "started"

\* line 147: the lock acquired, then the branch on barrier_type
OpenAcquire(t) ==
    /\ MayCallOpen(t)
    /\ call_pc[t] = "none"
    /\ barrier_lock = "free"
    /\ \E lane \in OpenArgs(t) :
          /\ call_lane' = [call_lane EXCEPT ![t] = lane]
          /\ call_pc' = [call_pc EXCEPT ![t] =
                            IF lane \in Lanes THEN "open_actuate" ELSE "unknown_lane"]
    /\ barrier_lock' = t
    /\ UNCHANGED <<bar_phase, bar_running, barrier_open, barrier_timer,
                   servo_angle, wd_pc, wd_lane, wd_time, opened_t>>
    /\ results_failed' = {}
    /\ UNCHANGED <<now, notBarVars>>

\* line 150 / 156: _set_servo_angle to the open angle
OpenActuate(t) ==
    /\ call_pc[t] = "open_actuate"
    /\ PwmExists(call_lane[t])
    /\ servo_angle' = [servo_angle EXCEPT ![call_lane[t]] = BARRIER_OPEN_ANGLE]
    /\ call_pc' = [call_pc EXCEPT ![t] = "open_set_flag"]
    /\ UNCHANGED <<bar_phase, bar_running, barrier_open, barrier_timer,
                   barrier_lock, call_lane, wd_pc, wd_lane, wd_time, opened_t>>
    /\ UNCHANGED results_failed
    /\ UNCHANGED <<now, notBarVars>>

\* open_barrier with the open flag set before the servo is driven, the servo
\* call then raising
OpenActuateFailsFlagSet(t) ==
    /\ call_pc[t] = "open_actuate"
    /\ barrier_open' = [barrier_open EXCEPT ![call_lane[t]] = TRUE]
    /\ call_pc' = [call_pc EXCEPT ![t] = "none"]
    /\ call_lane' = [call_lane EXCEPT ![t] = "entry"]
    /\ barrier_lock' = "free"
    /\ results_failed' = results_failed \cup {ReturnValue}
    /\ UNCHANGED <<bar_phase, bar_running, barrier_timer, servo_angle, wd_pc,
                   wd_lane, wd_time, opened_t>>
    /\ UNCHANGED <<now, notBarVars>>

\* _set_servo_angle raising: the lock is released, line 163 logs, None returned
OpenActuateFails(t) ==
    /\ call_pc[t] = "open_actuate"
    /\ call_pc' = [call_pc EXCEPT ![t] = "none"]
    /\ call_lane' = [call_lane EXCEPT ![t] = "entry"]
    /\ barrier_lock' = "free"
    /\ UNCHANGED <<bar_phase, bar_running, barrier_open, barrier_timer,
                   servo_angle, wd_pc, wd_lane, wd_time, opened_t>>
    /\ results_failed' = results_failed \cup {ReturnValue}
    /\ UNCHANGED <<now, notBarVars>>

\* line 151 / 157: the open flag set
OpenSetFlag(t) ==
    /\ call_pc[t] = "open_set_flag"
    /\ barrier_open' = [barrier_open EXCEPT ![call_lane[t]] = TRUE]
    /\ call_pc' = [call_pc EXCEPT ![t] = "open_set_timer"]
    /\ UNCHANGED <<bar_phase, bar_running, barrier_timer, barrier_lock,
                   servo_angle, call_lane, wd_pc, wd_lane, wd_time, opened_t>>
    /\ UNCHANGED results_failed
    /\ UNCHANGED <<now, notBarVars>>

\* line 152 / 158: the timer stamped, the lock released
OpenSetTimer(t) ==
    /\ call_pc[t] = "open_set_timer"
    /\ barrier_timer' = [barrier_timer EXCEPT ![call_lane[t]] = now]
    /\ opened_t' = [opened_t EXCEPT ![call_lane[t]] = now]
    /\ call_pc' = [call_pc EXCEPT ![t] = "none"]
    /\ call_lane' = [call_lane EXCEPT ![t] = "entry"]
    /\ barrier_lock' = "free"
    /\ UNCHANGED <<bar_phase, bar_running, barrier_open, servo_angle, wd_pc,
                   wd_lane, wd_time>>
    /\ UNCHANGED results_failed
    /\ UNCHANGED <<now, notBarVars>>

\* line 160-161: an unknown barrier_type is logged, nothing else
OpenUnknownLane(t) ==
    /\ call_pc[t] = "unknown_lane"
    /\ call_pc' = [call_pc EXCEPT ![t] = "none"]
    /\ call_lane' = [call_lane EXCEPT ![t] = "entry"]
    /\ barrier_lock' = "free"
    /\ UNCHANGED <<bar_phase, bar_running, barrier_open, barrier_timer,
                   servo_angle, wd_pc, wd_lane, wd_time, opened_t>>
    /\ UNCHANGED results_failed
    /\ UNCHANGED <<now, notBarVars>>

(***************************************************************************)
(* BarrierHandler.close_barrier, run by the watchdog or by cleanup()       *)
(***************************************************************************)
\* close_barrier(lane) returning to its caller: the watchdog goes on to the
\* exit lane or to its sleep (lines 206, 212), cleanup() goes on to the exit
\* lane or to the release of the PWM channels (lines 240, 243)
CloseReturn(t, lane) ==
    IF t = "watchdog"
    THEN /\ call_pc' = [call_pc EXCEPT ![t] = "none"]
         /\ call_lane' = [call_lane EXCEPT ![t] = "entry"]
         /\ wd_pc' = IF lane = "entry" THEN "check_open" ELSE "sleep"
         /\ wd_lane' = IF lane = "entry" THEN "exit" ELSE "entry"
         /\ wd_time' = IF lane = "entry" THEN wd_time ELSE 0
         /\ UNCHANGED bar_phase
    ELSE /\ call_pc' = [call_pc EXCEPT ![t] =
                           IF lane = "entry" THEN "close_wait" ELSE "none"]
         /\ call_lane' = [call_lane EXCEPT ![t] =
                           IF lane = "entry" THEN "exit" ELSE "entry"]
         /\ bar_phase' = IF lane = "entry" THEN "closing_exit" ELSE "release"
         /\ UNCHANGED <<wd_pc, wd_lane, wd_time>>

\* close_barrier without the test of the open flag
CloseAcquireNoTest(t) ==
    /\ call_pc[t] = "close_wait"
    /\ barrier_lock = "free"
    /\ barrier_lock' = t
    /\ call_pc' = [call_pc EXCEPT ![t] = "close_actuate"]
    /\ UNCHANGED <<bar_phase, bar_running, barrier_open, barrier_timer,
                   servo_angle, call_lane, wd_pc, wd_lane, wd_time, opened_t>>
    /\ results_failed' = {}
    /\ UNCHANGED <<now, notBarVars>>

\* lines 174-176 / 183: the lock acquired and the open flag tested; a lane that
\* is not open is left alone and the lock released
CloseAcquire(t) ==
    /\ call_pc[t] = "close_wait"
    /\ barrier_lock = "free"
    /\ IF barrier_open[call_lane[t]]
       THEN /\ barrier_lock' = t
            /\ call_pc' = [call_pc EXCEPT ![t] = "close_actuate"]
            /\ UNCHANGED <<call_lane, wd_pc, wd_lane, wd_time, bar_phase>>
       ELSE /\ CloseReturn(t, call_lane[t])
            /\ UNCHANGED barrier_lock
    /\ UNCHANGED <<bar_running, barrier_open, barrier_timer, servo_angle,
                   opened_t>>
    /\ results_failed' = {}
    /\ UNCHANGED <<now, notBarVars>>

\* line 178 / 185: _set_servo_angle to the closed angle
CloseActuate(t) ==
    /\ call_pc[t] = "close_actuate"
    /\ servo_angle' = [servo_angle EXCEPT ![call_lane[t]] = BARRIER_CLOSED_ANGLE]
    /\ call_pc' = [call_pc EXCEPT ![t] = "close_clear_flag"]
    /\ UNCHANGED <<bar_phase, bar_running, barrier_open, barrier_timer,
                   barrier_lock, call_lane, wd_pc, wd_lane, wd_time, opened_t>>
    /\ UNCHANGED results_failed
    /\ UNCHANGED <<now, notBarVars>>

\* _set_servo_angle raising: the lock is released, line 189 logs, None returned
CloseActuateFails(t) ==
    /\ call_pc[t] = "close_actuate"
    /\ barrier_lock' = "free"
    /\ CloseReturn(t, call_lane[t])
    /\ UNCHANGED <<bar_running, barrier_open, barrier_timer, servo_angle,
                   opened_t>>
    /\ results_failed' = results_failed \cup {ReturnValue}
    /\ UNCHANGED <<now, notBarVars>>

\* line 179 / 186: the open flag cleared
CloseClearFlag(t) ==
    /\ call_pc[t] = "close_clear_flag"
    /\ barrier_open' = [barrier_open EXCEPT ![call_lane[t]] = FALSE]
    /\ opened_t' = IF t = "main" THEN [opened_t EXCEPT ![call_lane[t]] = 0]
                   ELSE opened_t
    /\ call_pc' = [call_pc EXCEPT ![t] = "close_clear_timer"]
    /\ UNCHANGED <<bar_phase, bar_running, barrier_timer, barrier_lock,
                   servo_angle, call_lane, wd_pc, wd_lane, wd_time>>
    /\ UNCHANGED results_failed
    /\ UNCHANGED <<now, notBarVars>>

\* line 180 / 187: the timer cleared, the lock released
CloseClearTimer(t) ==
    /\ call_pc[t] = "close_clear_timer"
    /\ barrier_timer' = TimerAfterClose(barrier_timer, call_lane[t])
    /\ barrier_lock' = "free"
    /\ CloseReturn(t, call_lane[t])
    /\ UNCHANGED <<bar_running, barrier_open, servo_angle, opened_t>>
    /\ UNCHANGED results_failed
    /\ UNCHANGED <<now, notBarVars>>

(***************************************************************************)
(* BarrierHandler._auto_close_handler                                      *)
(***************************************************************************)
\* lines 196-198: the loop test and current_time = time.time()
WdLoopTop ==
    /\ wd_pc = "loop"
    /\ IF bar_running
       THEN /\ wd_pc' = "check_open"
            /\ wd_lane' = "entry"
            /\ wd_time' = now
       ELSE /\ wd_pc' = "done"
            /\ UNCHANGED <<wd_lane, wd_time>>
    /\ UNCHANGED <<bar_phase, bar_running, barrier_open, barrier_timer,
                   barrier_lock, servo_angle, call_pc, call_lane, opened_t>>
    /\ UNCHANGED results_failed
    /\ UNCHANGED <<now, notBarVars>>

\* the watchdog leaving a lane it does not close
WdSkipLane ==
    /\ wd_pc' = IF wd_lane = "entry" THEN "check_open" ELSE "sleep"
    /\ wd_lane' = IF wd_lane = "entry" THEN "exit" ELSE "entry"
    /\ wd_time' = IF wd_lane = "entry" THEN wd_time ELSE 0
    /\ UNCHANGED <<call_pc, call_lane>>

\* line 201 / 207: the open flag read, without the lock
WdCheckOpen ==
    /\ wd_pc = "check_open"
    /\ IF barrier_open[wd_lane]
       THEN /\ wd_pc' = "check_timer"
            /\ UNCHANGED <<wd_lane, wd_time, call_pc, call_lane>>
       ELSE WdSkipLane
    /\ UNCHANGED <<bar_phase, bar_running, barrier_open, barrier_timer,
                   barrier_lock, servo_angle, opened_t>>
    /\ UNCHANGED results_failed
    /\ UNCHANGED <<now, notBarVars>>

\* line 202-204 / 208-210: the timer read, without the lock, and close_barrier
\* called when it has expired
WdCheckTimer ==
    /\ wd_pc = "check_timer"
    /\ IF Expired(wd_time, barrier_timer[wd_lane])
       THEN /\ wd_pc' = "closing"
            /\ call_pc' = [call_pc EXCEPT !["watchdog"] = "close_wait"]
            /\ call_lane' = [call_lane EXCEPT !["watchdog"] = wd_lane]
            /\ UNCHANGED <<wd_lane, wd_time>>
       ELSE WdSkipLane
    /\ UNCHANGED <<bar_phase, bar_running, barrier_open, barrier_timer,
                   barrier_lock, servo_angle, opened_t>>
    /\ UNCHANGED results_failed
    /\ UNCHANGED <<now, notBarVars>>

\* line 212: time.sleep(0.1)
WdSleep ==
    /\ wd_pc = "sleep"
    /\ wd_pc' = "loop"
    /\ UNCHANGED <<bar_phase, bar_running, barrier_open, barrier_timer,
                   barrier_lock, servo_angle, call_pc, call_lane, wd_lane,
                   wd_time, opened_t>>
    /\ UNCHANGED results_failed
    /\ UNCHANGED <<now, notBarVars>>

(***************************************************************************)
(* BarrierHandler.cleanup, run by the main thread                          *)
(***************************************************************************)
\* line 231: running.clear()
BarrierCleanup ==
    /\ bar_phase = "started"
    /\ bar_phase' = "cleanup_join"
    /\ bar_running' = FALSE
    /\ UNCHANGED <<barrier_open, barrier_timer, barrier_lock, servo_angle,
                   call_pc, call_lane, wd_pc, wd_lane, wd_time, opened_t>>
    /\ UNCHANGED results_failed
    /\ UNCHANGED <<now, notBarVars>>

\* lines 234-239: the watchdog joined, then close_barrier("entry") called
BarrierCleanupJoined ==
    /\ bar_phase = "cleanup_join"
    /\ wd_pc = "done"
    /\ bar_phase' = "closing_entry"
    /\ call_pc' = [call_pc EXCEPT !["main"] = "close_wait"]
    /\ call_lane' = [call_lane EXCEPT !["main"] = "entry"]
    /\ UNCHANGED <<bar_running, barrier_open, barrier_timer, barrier_lock,
                   servo_angle, wd_pc, wd_lane, wd_time, opened_t>>
    /\ UNCHANGED results_failed
    /\ UNCHANGED <<now, notBarVars>>

\* lines 243-250: both PWM channels stopped, GPIO.cleanup()
BarrierCleanupRelease ==
    /\ bar_phase = "release"
    /\ bar_phase' = "cleaned"
    /\ UNCHANGED <<bar_running, barrier_open, barrier_timer, barrier_lock,
                   servo_angle, call_pc, call_lane, wd_pc, wd_lane, wd_time,
                   opened_t>>
    /\ UNCHANGED results_failed
    /\ UNCHANGED <<now, notBarVars>>

\* stop(), main.py lines 266-272: display.cleanup() and mqtt.cleanup(), whose
\* loop_stop() joins the network thread once its callback has returned
StopCompletes ==
    /\ bar_phase = "cleaned"
    /\ call_pc["mqtt"] = "none"
    /\ bar_phase' = "stopped"
    /\ UNCHANGED <<bar_running, barrier_open, barrier_timer, barrier_lock,
                   servo_angle, call_pc, call_lane, wd_pc, wd_lane, wd_time,
                   opened_t>>
    /\ UNCHANGED results_failed
    /\ UNCHANGED <<now, notBarVars>>

(***************************************************************************)
(* Properties of the barrier controller                                    *)
(***************************************************************************)
\* C2: after a successful open_barrier(lane) at time t with no later open or
\* manual close of the lane, get_status() reports the lane open at every time
\* before t + BARRIER_OPEN_DURATION (get_status takes the lock, so it reports
\* only when the lock is free).
C2_OpenUntilDuration ==
    \A lane \in Lanes :
        (barrier_lock = "free" /\ opened_t[lane] # 0
            /\ now < opened_t[lane] + BARRIER_OPEN_DURATION)
        => get_status[lane] = "open"

\* the step in which the watchdog decides about the lane it is looking at
WdDecides == wd_pc = "check_timer" /\ wd_pc' # "check_timer"

C4_WatchdogClosesOnlyExpired ==
    call_pc["watchdog"] \in {"close_actuate", "close_clear_flag"} =>
        now - barrier_timer[call_lane["watchdog"]] >= BARRIER_OPEN_DURATION

\* C5 (as amended): whenever the barrier lock is free, opened_at is set
\* (non-zero) if and only if is_open is true, for each lane; both lanes start
\* closed with opened_at unset.
C5_TimerSetIffOpenWhenUnlocked ==
    /\ barrier_lock = "free" =>
          \A lane \in Lanes : (barrier_timer[lane] # 0) <=> barrier_open[lane]
    /\ bar_phase = "constructed" =>
          \A lane \in Lanes : ~barrier_open[lane] /\ barrier_timer[lane] = 0

\* C5 (as claimed): in every reachable state, opened_at is set if and only if
\* is_open is true.
C5_TimerSetIffOpen ==
    \A lane \in Lanes : (barrier_timer[lane] # 0) <=> barrier_open[lane]

\* the lock is free, the entry lane is open with its timer set, and the exit
\* lane has been opened and closed again
C5_Witness ==
    /\ barrier_lock = "free"
    /\ barrier_open["entry"]
    /\ barrier_timer["entry"] # 0
    /\ ~barrier_open["exit"]
    /\ barrier_timer["exit"] = 0
    /\ servo_angle["exit"] = BARRIER_CLOSED_ANGLE
    /\ opened_t["exit"] # 0

\* C11: open_barrier(lane) on a lane that is already open refreshes opened_at
\* and does not drive the actuator again; the actuator is driven only for a
\* lane that is closed.
C11_NoActuationWhenOpen ==
    \A t \in BarrierThreads :
        call_pc[t] = "open_actuate" => ~barrier_open[call_lane[t]]

\* the actuation of thread t's open_barrier or close_barrier call raises in
\* this step
ActuationFails(t) ==
    \/ call_pc[t] = "open_actuate" /\ call_pc'[t] = "none"
    \/ /\ call_pc[t] = "close_actuate"
       /\ call_pc'[t] \notin {"close_actuate", "close_clear_flag"}

\* C12: if the actuation call raises inside open_barrier or close_barrier, the
\* lanes' is_open and opened_at are what they were before the call and the
\* barrier lock is released.
C12_FailedActuationLeavesState ==
    [][\A t \in BarrierThreads :
          ActuationFails(t) =>
             /\ barrier_open' = barrier_open
             /\ barrier_timer' = barrier_timer
             /\ barrier_lock = t
             /\ barrier_lock' = "free"
      ]_vars

\* an actuation has failed, the lock is free again, one lane is open and the
\* other closed
C12_Witness ==
    /\ results_failed # {}
    /\ barrier_lock = "free"
    /\ barrier_open["entry"]
    /\ barrier_timer["entry"] # 0
    /\ ~barrier_open["exit"]
    /\ barrier_timer["exit"] = 0

\* thread t's close_barrier call takes the lock and tests the open flag in this
\* step
CloseDecides(t) ==
    /\ call_pc[t] = "close_wait"
    /\ call_pc'[t] # "close_wait" \/ call_lane'[t] # call_lane[t]

\* C18: close_barrier(lane) on a lane that is already closed makes no actuation
\* call and changes no state; on an open lane it drives the actuator to the
\* closed position and then sets is_open false and clears opened_at.
C18_CloseNoOpOrFull ==
    [][\A t \in {"watchdog", "main"} :
          /\ (CloseDecides(t) /\ ~barrier_open[call_lane[t]]) =>
                /\ call_pc'[t] # "close_actuate"
                /\ UNCHANGED <<barrier_open, barrier_timer, servo_angle>>
                /\ barrier_lock' = "free"
          /\ (CloseDecides(t) /\ barrier_open[call_lane[t]]) =>
                call_pc'[t] = "close_actuate"
          /\ call_pc[t] = "close_clear_flag" =>
                servo_angle[call_lane[t]] = BARRIER_CLOSED_ANGLE
          /\ (call_pc[t] = "close_clear_timer" /\ call_pc'[t] # "close_clear_timer") =>
                /\ ~barrier_open'[call_lane[t]]
                /\ barrier_timer'[call_lane[t]] = 0
      ]_vars

\* the entry lane was opened and closed again by the watchdog, and cleanup's
\* close_barrier("entry") then found it closed and left it alone
C18_Witness ==
    /\ bar_phase \in {"closing_exit", "release"}
    /\ opened_t["entry"] # 0
    /\ ~barrier_open["entry"]
    /\ barrier_timer["entry"] = 0
    /\ servo_angle["entry"] = BARRIER_CLOSED_ANGLE
    /\ barrier_lock = "free"

\* the threads that are inside an actuation call (_set_servo_angle) for a lane:
\* callers of open_barrier and close_barrier past the lock, and the main thread
\* inside setup()
Actuating(lane) ==
    {t \in BarrierThreads :
        call_pc[t] \in {"open_actuate", "close_actuate"} /\ call_lane[t] = lane}
    \cup (IF \/ lane = "entry" /\ bar_phase = "setup_entry"
             \/ lane = "exit" /\ bar_phase = "setup_exit"
          THEN {"setup"} ELSE {})

\* C22: at most one physical actuation call for a given lane is in progress at
\* any time, across all callers (camera threads, MQTT callback thread, watchdog,
\* barrier setup and shutdown cleanup).
C22_OneActuationPerLane ==
    \A lane \in Lanes : Cardinality(Actuating(lane)) <= 1

\* C23: when stop() has completed, both lanes are closed (is_open false,
\* opened_at cleared), whatever detection or remote command was processed
\* during or after the barrier cleanup.
C23_ClosedAfterStop ==
    bar_phase = "stopped" =>
        \A lane \in Lanes : ~barrier_open[lane] /\ barrier_timer[lane] = 0

\* thread t takes a step of the open_barrier or close_barrier call it is in
CallStep(t) == call_pc[t] # "none" /\ call_pc'[t] # call_pc[t]

\* C37: the two lanes are independent in state: a step of open_barrier or
\* close_barrier on one lane (by any caller, the watchdog included) leaves the
\* other lane's open flag, timer and servo unchanged; a lane's flag and timer
\* change only in a call that names the lane; and a call naming a lane other
\* than entry or exit drives no servo and leaves both lanes' state unchanged.
C37_LanesIndependent ==
    [][ /\ \A t \in BarrierThreads :
              (CallStep(t) /\ call_pc[t] # "unknown_lane") =>
                  \A other \in Lanes \ {call_lane[t]} :
                      /\ barrier_open'[other] = barrier_open[other]
                      /\ barrier_timer'[other] = barrier_timer[other]
                      /\ servo_angle'[other] = servo_angle[other]
        /\ \A lane \in Lanes :
              (barrier_open'[lane] # barrier_open[lane]
                  \/ barrier_timer'[lane] # barrier_timer[lane]) =>
                  \E t \in BarrierThreads :
                      CallStep(t) /\ call_lane[t] = lane /\ barrier_lock = t
        /\ \A t \in BarrierThreads :
              (CallStep(t) /\ call_pc[t] = "unknown_lane") =>
                  /\ barrier_open' = barrier_open
                  /\ barrier_timer' = barrier_timer
                  /\ servo_angle' = servo_angle
      ]_vars

\* the watchdog has closed the entry lane and is about to clear its timer,
\* while the exit lane is open with its own timer set
C37_Witness ==
    /\ call_pc["watchdog"] = "close_clear_timer"
    /\ call_lane["watchdog"] = "entry"
    /\ ~barrier_open["entry"]
    /\ barrier_open["exit"]
    /\ barrier_timer["exit"] # 0
    /\ servo_angle["exit"] = BARRIER_OPEN_ANGLE

NextBarrier ==
    \/ Tick
    \/ BarrierSetupEntry
    \/ BarrierSetupExit
    \/ BarrierSetup
    \/ BarrierSetupFails
    \/ BarrierStart
    \/ \E t \in {"cam_entry", "cam_exit", "mqtt"} :
          \/ OpenAcquire(t)
          \/ OpenActuate(t)
          \/ OpenActuateFails(t)
          \/ OpenSetFlag(t)
          \/ OpenSetTimer(t)
          \/ OpenUnknownLane(t)
    \/ \E t \in {"watchdog", "main"} :
          \/ CloseAcquire(t)
          \/ CloseActuate(t)
          \/ CloseActuateFails(t)
          \/ CloseClearFlag(t)
          \/ CloseClearTimer(t)
    \/ WdLoopTop
    \/ WdCheckOpen
    \/ WdCheckTimer
    \/ WdSleep
    \/ BarrierCleanup
    \/ BarrierCleanupJoined
    \/ BarrierCleanupRelease
    \/ StopCompletes

(***************************************************************************)
(* CameraHandler                                                           *)
(***************************************************************************)
\* the cooldown test with a window one second too short
InCooldownShort(current_time, last) ==
    current_time - last < QR_COOLDOWN_SECONDS - 1

\* line 123: current_time - last_qr_times[camera_type] < QR_COOLDOWN_SECONDS
InCooldown(current_time, last) ==
    current_time - last < QR_COOLDOWN_SECONDS

\* the texts a QR code can carry
Payloads == {"U1", "U2"}

\* the most QR codes in one frame
MaxCodes == 2

NoPayload == ""

CameraInit ==
    /\ cam_phase = "constructed"
    /\ cam_running = FALSE
    /\ last_qr_times = [ch \in Lanes |-> 0]
    /\ cooldown_lock = "free"
    /\ cam_pc = [ch \in Lanes |-> "not_started"]
    /\ cam_time = [ch \in Lanes |-> 0]
    /\ last_admit = [ch \in Lanes |-> 0]
    /\ prev_admit = [ch \in Lanes |-> 0]
    /\ qr_connected = [ch \in Lanes |-> "unread"]
    /\ qr_codes = [ch \in Lanes |-> <<>>]
    /\ qr_data = [ch \in Lanes |-> NoPayload]
    /\ qr_opened = [ch \in Lanes |-> {}]
    /\ qr_attempts = [ch \in Lanes |-> 0]
    /\ qr_published = [ch \in Lanes |-> {}]
    /\ cam_failed = [ch \in Lanes |-> FALSE]

\* start(): running.set() and both monitoring threads started
CameraStart ==
    /\ cam_phase = "constructed"
    /\ cam_phase' = "started"
    /\ cam_running' = TRUE
    /\ cam_pc' = [ch \in Lanes |-> "loop"]
    /\ UNCHANGED <<last_qr_times, cooldown_lock, cam_time, last_admit, prev_admit>>
    /\ UNCHANGED detVars
    /\ UNCHANGED cam_failed
    /\ UNCHANGED <<now, notCamVars>>

\* lines 110-121: the loop test, a frame read, current_time = time.time()
CamReadFrame(ch) ==
    /\ cam_pc[ch] = "loop"
    /\ IF cam_running
       THEN /\ cam_pc' = [cam_pc EXCEPT ![ch] = "cooldown_check"]
            /\ cam_time' = [cam_time EXCEPT ![ch] = now]
       ELSE /\ cam_pc' = [cam_pc EXCEPT ![ch] = "done"]
            /\ UNCHANGED cam_time
    /\ UNCHANGED <<cam_phase, cam_running, last_qr_times, cooldown_lock,
                   last_admit, prev_admit>>
    /\ UNCHANGED detVars
    /\ UNCHANGED cam_failed
    /\ UNCHANGED <<now, notCamVars>>

\* lines 115-118: camera.read() without a frame
CamReadFails(ch) ==
    /\ cam_pc[ch] = "loop"
    /\ cam_running
    /\ cam_pc' = [cam_pc EXCEPT ![ch] = "sleep"]
    /\ UNCHANGED <<cam_phase, cam_running, last_qr_times, cooldown_lock,
                   cam_time, last_admit, prev_admit>>
    /\ UNCHANGED detVars
    /\ cam_failed' = [cam_failed EXCEPT ![ch] = TRUE]
    /\ UNCHANGED <<now, notCamVars>>

\* lines 122-126: the cooldown test under cooldown_lock; in cooldown the thread
\* sleeps inside the with-block, otherwise the lock is released at once
CamCooldownCheck(ch) ==
    /\ cam_pc[ch] = "cooldown_check"
    /\ cooldown_lock = "free"
    /\ IF InCooldown(cam_time[ch], last_qr_times[ch])
       THEN /\ cooldown_lock' = ch
            /\ cam_pc' = [cam_pc EXCEPT ![ch] = "cooldown_sleep"]
       ELSE /\ cam_pc' = [cam_pc EXCEPT ![ch] = "decode"]
            /\ UNCHANGED cooldown_lock
    /\ UNCHANGED <<cam_phase, cam_running, last_qr_times, cam_time,
                   last_admit, prev_admit>>
    /\ UNCHANGED detVars
    /\ UNCHANGED cam_failed
    /\ UNCHANGED <<now, notCamVars>>

\* lines 125-126: the sleep over, the lock released, continue
CamCooldownSleep(ch) ==
    /\ cam_pc[ch] = "cooldown_sleep"
    /\ cooldown_lock' = "free"
    /\ cam_pc' = [cam_pc EXCEPT ![ch] = "loop"]
    /\ cam_time' = [cam_time EXCEPT ![ch] = 0]
    /\ UNCHANGED <<cam_phase, cam_running, last_qr_times, last_admit, prev_admit>>
    /\ UNCHANGED detVars
    /\ UNCHANGED cam_failed
    /\ UNCHANGED <<now, notCamVars>>

\* what pyzbar.decode(frame) can return: no code, or up to MaxCodes codes
\* with different texts
FrameCodes ==
    {codes \in UNION {[1..n -> Payloads] : n \in 0..MaxCodes} :
        \A i, j \in DOMAIN codes : codes[i] = codes[j] => i = j}

\* lines 129-131: pyzbar.decode(frame) and the test of its result
CamDecode(ch) ==
    /\ cam_pc[ch] = "decode"
    /\ \E codes \in FrameCodes :
          IF codes # <<>>
          THEN /\ qr_codes' = [qr_codes EXCEPT ![ch] = codes]
               /\ cam_pc' = [cam_pc EXCEPT ![ch] = "stamp"]
               /\ UNCHANGED cam_time
          ELSE /\ cam_pc' = [cam_pc EXCEPT ![ch] = "sleep"]
               /\ cam_time' = [cam_time EXCEPT ![ch] = 0]
               /\ UNCHANGED qr_codes
    /\ UNCHANGED <<cam_phase, cam_running, last_qr_times, cooldown_lock,
                   last_admit, prev_admit>>
    /\ UNCHANGED <<qr_connected, qr_data, qr_opened, qr_attempts, qr_published>>
    /\ UNCHANGED cam_failed
    /\ UNCHANGED <<now, notCamVars>>

\* the stamp written to every channel's entry of the registry
CamStampBoth(ch) ==
    /\ cam_pc[ch] = "stamp"
    /\ cooldown_lock = "free"
    /\ qr_data' = [qr_data EXCEPT ![ch] = qr_codes[ch][1]]
    /\ last_qr_times' = [c \in DOMAIN last_qr_times |-> cam_time[ch]]
    /\ cam_pc' = [cam_pc EXCEPT ![ch] = "callback"]
    /\ UNCHANGED <<cam_phase, cam_running, cooldown_lock, cam_time,
                   last_admit, prev_admit>>
    /\ UNCHANGED <<qr_connected, qr_codes, qr_opened, qr_attempts,
                   qr_published>>
    /\ UNCHANGED cam_failed
    /\ UNCHANGED <<now, notCamVars>>

\* the first code taken and the callback reached without the stamp
CamStampSkipped(ch) ==
    /\ cam_pc[ch] = "stamp"
    /\ cooldown_lock = "free"
    /\ qr_data' = [qr_data EXCEPT ![ch] = qr_codes[ch][1]]
    /\ cam_pc' = [cam_pc EXCEPT ![ch] = "callback"]
    /\ UNCHANGED <<cam_phase, cam_running, last_qr_times, cooldown_lock,
                   cam_time, last_admit, prev_admit>>
    /\ UNCHANGED <<qr_connected, qr_codes, qr_opened, qr_attempts,
                   qr_published>>
    /\ UNCHANGED cam_failed
    /\ UNCHANGED <<now, notCamVars>>

\* lines 132-137: the first pass of the for loop: qr_data is the text of the
\* first code and last_qr_times[camera_type] = current_time under the lock;
\* the break of line 146 leaves the other codes of the frame alone
CamStamp(ch) ==
    /\ cam_pc[ch] = "stamp"
    /\ cooldown_lock = "free"
    /\ qr_data' = [qr_data EXCEPT ![ch] = qr_codes[ch][1]]
    /\ last_qr_times' = [last_qr_times EXCEPT ![ch] = cam_time[ch]]
    /\ cam_pc' = [cam_pc EXCEPT ![ch] = "callback"]
    /\ UNCHANGED <<cam_phase, cam_running, cooldown_lock, cam_time,
                   last_admit, prev_admit>>
    /\ UNCHANGED <<qr_connected, qr_codes, qr_opened, qr_attempts,
                   qr_published>>
    /\ UNCHANGED cam_failed
    /\ UNCHANGED <<now, notCamVars>>

\* the detection event with the barrier field fixed to the entry lane
DetectionEventEntryBarrier(qr, camera_type, barrier_type, timestamp) ==
    [qrData |-> qr, camera |-> camera_type, barrier |-> "entry",
     timestamp |-> timestamp]

\* mqtt_handler.py lines 206-211: the payload of a detection event
DetectionEvent(qr, camera_type, barrier_type, timestamp) ==
    [qrData |-> qr, camera |-> camera_type, barrier |-> barrier_type,
     timestamp |-> timestamp]

\* lines 142-146 and main.py lines 62-77: the callback invoked for the first QR
\* code of the frame; on_qr_detected takes barrier_type = camera_type and calls
\* open_barrier(barrier_type, user_id=qr_data)
CamCallback(ch) ==
    /\ cam_pc[ch] = "callback"
    /\ prev_admit' = [prev_admit EXCEPT ![ch] = last_admit[ch]]
    /\ last_admit' = [last_admit EXCEPT ![ch] = cam_time[ch]]
    /\ LET barrier_type == ch
       IN  qr_opened' = [qr_opened EXCEPT
                            ![ch] = @ \cup {<<barrier_type, qr_data[ch]>>}]
    /\ cam_pc' = [cam_pc EXCEPT ![ch] = "publish"]
    /\ cam_time' = [cam_time EXCEPT ![ch] = 0]
    /\ UNCHANGED <<cam_phase, cam_running, last_qr_times, cooldown_lock>>
    /\ qr_codes' = [qr_codes EXCEPT ![ch] = <<>>]
    /\ UNCHANGED <<qr_connected, qr_data, qr_attempts, qr_published>>
    /\ UNCHANGED cam_failed
    /\ UNCHANGED <<now, notCamVars>>

\* main.py lines 80-81 and mqtt_handler.py lines 193-228:
\* publish_qr_detected(qr_data, camera_type, barrier_type) returns False
\* without publishing when connected.is_set() is false (the network thread
\* sets and clears the flag at any time); otherwise it hands one event to
\* client.publish, which accepts it (rc success) or not
CamPublish(ch) ==
    /\ cam_pc[ch] = "publish"
    /\ qr_attempts' = [qr_attempts EXCEPT ![ch] = @ + 1]
    /\ \E is_set \in BOOLEAN :
          /\ qr_connected' = [qr_connected EXCEPT
                               ![ch] = IF is_set THEN "set" ELSE "clear"]
          /\ IF is_set
             THEN \E accepted \in BOOLEAN :
                     /\ qr_published' =
                           IF accepted
                           THEN [qr_published EXCEPT
                                    ![ch] = @ \cup
                                       {DetectionEvent(qr_data[ch], ch, ch, now)}]
                           ELSE qr_published
                     /\ cam_failed' = [cam_failed EXCEPT ![ch] = ~accepted]
             ELSE /\ UNCHANGED qr_published
                  /\ cam_failed' = [cam_failed EXCEPT ![ch] = TRUE]
    /\ cam_pc' = [cam_pc EXCEPT ![ch] = "sleep"]
    /\ UNCHANGED <<cam_phase, cam_running, last_qr_times, cooldown_lock,
                   cam_time, last_admit, prev_admit>>
    /\ UNCHANGED <<qr_codes, qr_data, qr_opened>>
    /\ UNCHANGED <<now, notCamVars>>

\* an exception in the detection callback that leaves the while loop: the
\* thread ends with the running flag still set
CamCallbackFailsEndsLoop(ch) ==
    /\ cam_pc[ch] = "callback"
    /\ prev_admit' = [prev_admit EXCEPT ![ch] = last_admit[ch]]
    /\ last_admit' = [last_admit EXCEPT ![ch] = cam_time[ch]]
    /\ cam_time' = [cam_time EXCEPT ![ch] = 0]
    /\ cam_pc' = [cam_pc EXCEPT ![ch] = "done"]
    /\ UNCHANGED <<cam_phase, cam_running, last_qr_times, cooldown_lock>>
    /\ qr_codes' = [qr_codes EXCEPT ![ch] = <<>>]
    /\ UNCHANGED <<qr_connected, qr_data, qr_opened, qr_attempts,
                   qr_published>>
    /\ cam_failed' = [cam_failed EXCEPT ![ch] = TRUE]
    /\ UNCHANGED <<now, notCamVars>>

\* lines 151-153: the callback raises; the except clause logs the error and
\* sleeps one second
CamCallbackFails(ch) ==
    /\ cam_pc[ch] = "callback"
    /\ prev_admit' = [prev_admit EXCEPT ![ch] = last_admit[ch]]
    /\ last_admit' = [last_admit EXCEPT ![ch] = cam_time[ch]]
    /\ cam_time' = [cam_time EXCEPT ![ch] = 0]
    /\ cam_pc' = [cam_pc EXCEPT ![ch] = "sleep"]
    /\ UNCHANGED <<cam_phase, cam_running, last_qr_times, cooldown_lock>>
    /\ qr_codes' = [qr_codes EXCEPT ![ch] = <<>>]
    /\ UNCHANGED <<qr_connected, qr_data, qr_opened, qr_attempts,
                   qr_published>>
    /\ cam_failed' = [cam_failed EXCEPT ![ch] = TRUE]
    /\ UNCHANGED <<now, notCamVars>>

\* line 149 (or 117, 153): the sleep that ends an iteration
CamSleep(ch) ==
    /\ cam_pc[ch] = "sleep"
    /\ cam_pc' = [cam_pc EXCEPT ![ch] = "loop"]
    /\ qr_data' = [qr_data EXCEPT ![ch] = NoPayload]
    /\ qr_opened' = [qr_opened EXCEPT ![ch] = {}]
    /\ qr_attempts' = [qr_attempts EXCEPT ![ch] = 0]
    /\ qr_published' = [qr_published EXCEPT ![ch] = {}]
    /\ UNCHANGED <<cam_phase, cam_running, last_qr_times, cooldown_lock,
                   cam_time, last_admit, prev_admit>>
    /\ qr_connected' = [qr_connected EXCEPT ![ch] = "unread"]
    /\ UNCHANGED qr_codes
    /\ cam_failed' = [cam_failed EXCEPT ![ch] = FALSE]
    /\ UNCHANGED <<now, notCamVars>>

\* cleanup(): running.clear()
CameraCleanup ==
    /\ cam_phase = "started"
    /\ cam_phase' = "stopping"
    /\ cam_running' = FALSE
    /\ UNCHANGED <<last_qr_times, cooldown_lock, cam_pc, cam_time, last_admit,
                   prev_admit>>
    /\ UNCHANGED detVars
    /\ UNCHANGED cam_failed
    /\ UNCHANGED <<now, notCamVars>>

\* cleanup(): both threads joined, both cameras released
CameraCleanupJoined ==
    /\ cam_phase = "stopping"
    /\ \A ch \in Lanes : cam_pc[ch] = "done"
    /\ cam_phase' = "stopped"
    /\ UNCHANGED <<cam_running, last_qr_times, cooldown_lock, cam_pc, cam_time,
                   last_admit, prev_admit>>
    /\ UNCHANGED detVars
    /\ UNCHANGED cam_failed
    /\ UNCHANGED <<now, notCamVars>>

(***************************************************************************)
(* Properties of the detection cooldown                                    *)
(***************************************************************************)
\* a detection of channel ch is turned away by the cooldown test in this step
Suppressed(ch) ==
    /\ cam_pc[ch] = "cooldown_check"
    /\ cam_pc'[ch] # "cooldown_check"
    /\ cam_time[ch] - last_qr_times[ch] < QR_COOLDOWN_SECONDS

\* C6: for each channel, any two events for which the callback is invoked carry
\* frame times at least QR_COOLDOWN_SECONDS apart; a detection whose frame time
\* is less than QR_COOLDOWN_SECONDS after the channel's last admitted event is
\* suppressed: no callback for it and last_trigger_at unchanged.
C6_CooldownBetweenAdmissions ==
    /\ [](\A ch \in Lanes :
            /\ prev_admit[ch] # 0 =>
                  last_admit[ch] - prev_admit[ch] >= QR_COOLDOWN_SECONDS
            /\ cam_pc[ch] \in {"decode", "stamp"} =>
                  cam_time[ch] - last_qr_times[ch] >= QR_COOLDOWN_SECONDS)
    /\ [][\A ch \in Lanes :
            /\ Suppressed(ch) =>
                  /\ cam_pc'[ch] = "cooldown_sleep"
                  /\ last_qr_times' = last_qr_times
            /\ cam_pc[ch] = "cooldown_sleep" =>
                  /\ cam_pc'[ch] \in {"cooldown_sleep", "loop"}
                  /\ last_qr_times'[ch] = last_qr_times[ch]
                  /\ last_admit'[ch] = last_admit[ch]
         ]_vars

\* two events have been admitted on the entry channel and a later frame of that
\* channel is being suppressed
C6_Witness ==
    /\ prev_admit["entry"] # 0
    /\ last_admit["entry"] - prev_admit["entry"] >= QR_COOLDOWN_SECONDS
    /\ cam_pc["entry"] = "cooldown_sleep"
    /\ cam_time["entry"] > last_admit["entry"]

\* thread other touches the cooldown registry in this step
RegistryAccess(other) ==
    \/ cam_pc[other] = "cooldown_check" /\ cam_pc'[other] # "cooldown_check"
    \/ cam_pc[other] = "stamp" /\ cam_pc'[other] = "callback"

\* C7: the cooldown check and the update of last_trigger_at are one atomic
\* step: between a thread's eligibility check and its stamp no other thread
\* reads or writes the cooldown registry.
C7_CheckAndStampAtomic ==
    [][\A ch \in Lanes : \A other \in Lanes \ {ch} :
          cam_pc[ch] \in {"decode", "stamp"} => ~RegistryAccess(other)
      ]_vars

\* C17: whether a raw detection on one channel is admitted depends only on
\* that channel's own last_qr_times entry: the gate lets a frame of channel ch
\* through exactly when it is outside ch's own cooldown, whatever the other
\* channel's entry is, and a channel's entry changes only by that channel's own
\* stamp.
C17_ChannelsIndependent ==
    [][\A ch \in DOMAIN cam_pc :
          /\ (cam_pc[ch] = "cooldown_check" /\ cam_pc'[ch] # "cooldown_check") =>
                (cam_pc'[ch] = "decode" <=>
                    ~InCooldown(cam_time[ch], last_qr_times[ch]))
          /\ last_qr_times'[ch] # last_qr_times[ch] =>
                /\ cam_pc[ch] = "stamp"
                /\ last_qr_times'[ch] = cam_time[ch]
      ]_vars

\* a frame of the exit channel has been admitted and stamped at a time that is
\* inside the entry channel's cooldown, and the entry channel's stamp is still
\* its own
C17_Witness ==
    /\ cam_pc["exit"] = "callback"
    /\ last_qr_times["exit"] = cam_time["exit"]
    /\ last_qr_times["entry"] # 0
    /\ last_qr_times["entry"] = last_admit["entry"]
    /\ last_qr_times["entry"] < cam_time["exit"]
    /\ InCooldown(cam_time["exit"], last_qr_times["entry"])

\* C27: the detection channels never block each other: no camera loop is at
\* a point where it needs the cooldown lock while the other camera loop holds
\* that lock.
C27_ChannelsNeverBlock ==
    \A ch \in Lanes :
        cam_pc[ch] \in {"cooldown_check", "stamp"} =>
            cooldown_lock \in {"free", ch}

\* the detection events of channel ch that carry payload qr, camera ch and
\* barrier ch
CarriesDetection(events, qr, ch) ==
    \A e \in events : e.qrData = qr /\ e.camera = ch /\ e.barrier = ch

\* the open_barrier call comes first and is for lane ch with the payload as
\* user; no other lane is opened by the detection
OpenFirst(ch) ==
    /\ qr_opened[ch] \subseteq {<<ch, qr_data[ch]>>}
    /\ cam_pc[ch] = "publish" =>
          /\ qr_opened[ch] = {<<ch, qr_data[ch]>>}
          /\ qr_attempts[ch] = 0
          /\ qr_published[ch] = {}
    /\ qr_attempts[ch] > 0 => qr_opened[ch] = {<<ch, qr_data[ch]>>}

\* C29 as stated: for every admitted detection on channel C, the coordinator
\* first calls open_barrier(lane = C, user = payload) and only then publishes
\* one detection event carrying (payload, camera = C, barrier = C); no lane
\* other than C is opened by that detection.
C29_OpenThenPublishOne ==
    \A ch \in Lanes :
        /\ OpenFirst(ch)
        /\ qr_attempts[ch] > 0 =>
              /\ Cardinality(qr_published[ch]) = 1
              /\ CarriesDetection(qr_published[ch], qr_data[ch], ch)

\* C29, amended: for every admitted detection on channel C, the coordinator
\* first calls open_barrier(lane = C, user = payload) and only then makes one
\* publish_qr_detected call; that call sends at most one detection event,
\* carrying (payload, camera = C, barrier = C), and sends none when the client
\* is not connected; no lane other than C is opened by that detection.
C29_OpenThenOnePublishAttempt ==
    /\ [](\A ch \in Lanes :
            /\ OpenFirst(ch)
            /\ qr_attempts[ch] <= 1
            /\ qr_published[ch] # {} => qr_attempts[ch] = 1
            /\ Cardinality(qr_published[ch]) <= 1
            /\ CarriesDetection(qr_published[ch], qr_data[ch], ch))
    /\ [][\A ch \in Lanes :
            (cam_pc[ch] = "publish" /\ cam_pc'[ch] # "publish") =>
                /\ qr_attempts'[ch] = 1
                /\ qr_connected'[ch] = "clear" => qr_published'[ch] = {}
         ]_vars

\* a detection of the exit channel with payload U2 has opened the exit lane and
\* then published its event
C29_Witness ==
    /\ cam_pc["exit"] = "sleep"
    /\ qr_data["exit"] = "U2"
    /\ qr_opened["exit"] = {<<"exit", "U2">>}
    /\ qr_attempts["exit"] = 1
    /\ Cardinality(qr_published["exit"]) = 1
    /\ qr_connected["exit"] = "set"

\* C38: one processed camera frame admits at most one event: of the QR codes
\* of a frame only the first decoded one reaches the callback, which is invoked
\* at most once for the frame, and last_qr_times is stamped with the frame's
\* time before the callback runs, so that a callback that fails leaves the
\* channel's cooldown window consumed.
C38_OneEventPerFrame ==
    /\ [](\A ch \in Lanes :
            /\ cam_pc[ch] = "callback" =>
                  /\ last_qr_times[ch] = cam_time[ch]
                  /\ qr_data[ch] = Head(qr_codes[ch])
            /\ cam_pc[ch] = "publish" => last_qr_times[ch] = last_admit[ch]
            /\ Cardinality(qr_opened[ch]) <= 1
            /\ qr_attempts[ch] <= 1)
    /\ [][\A ch \in Lanes :
            /\ last_admit'[ch] # last_admit[ch] => cam_pc[ch] = "callback"
            /\ (cam_pc[ch] = "callback" /\ cam_pc'[ch] # "callback") =>
                  /\ cam_pc'[ch] \in {"publish", "sleep"}
                  /\ last_qr_times'[ch] = cam_time[ch]
                  /\ last_admit'[ch] = cam_time[ch]
            /\ (cam_pc[ch] \in {"publish", "sleep"}
                    /\ cam_pc'[ch] # cam_pc[ch]) =>
                  cam_pc'[ch] \in {"sleep", "loop"}
         ]_vars

\* a frame of the entry channel holds two codes, U2 decoded first: the channel
\* is stamped with the frame's time and the callback is about to run for U2
C38_Witness ==
    /\ cam_pc["entry"] = "callback"
    /\ qr_codes["entry"] = <<"U2", "U1">>
    /\ qr_data["entry"] = "U2"
    /\ last_qr_times["entry"] = cam_time["entry"]
    /\ last_admit["entry"] # 0
    /\ last_admit["entry"] < cam_time["entry"]

\* one step of the monitoring thread of channel ch (_monitor_camera)
CamStep(ch) ==
    \/ CamReadFrame(ch) \/ CamReadFails(ch) \/ CamCooldownCheck(ch)
    \/ CamCooldownSleep(ch) \/ CamDecode(ch) \/ CamStamp(ch)
    \/ CamCallback(ch) \/ CamPublish(ch) \/ CamCallbackFails(ch)
    \/ CamSleep(ch)

NextCameraLoops ==
    \/ CameraStart
    \/ \E ch \in Lanes : CamStep(ch)
    \/ CameraCleanup
    \/ CameraCleanupJoined

NextCamera ==
    \/ Tick
    \/ CameraStart
    \/ \E ch \in Lanes :
          \/ CamReadFrame(ch)
          \/ CamReadFails(ch)
          \/ CamCooldownCheck(ch)
          \/ CamCooldownSleep(ch)
          \/ CamDecode(ch)
          \/ CamStamp(ch)
          \/ CamCallback(ch)
          \/ CamPublish(ch)
          \/ CamCallbackFails(ch)
          \/ CamSleep(ch)
    \/ CameraCleanup
    \/ CameraCleanupJoined

(***************************************************************************)
(* MQTTHandler: messages and their parsing                                 *)
(***************************************************************************)
\* a JSON value that is not a string (a number, null, a list)
NotAString == "<not a string>"

IsStr(v) == v # NotAString

\* a comparison of the raw strings, with no lowering
LowerNot(str) == str

\* str.lower() on the strings that occur in the messages
Lower(str) ==
    CASE str = "OPEN" -> "open"
      [] str = "Open" -> "open"
      [] str = "Entry" -> "entry"
      [] str = "EXIT" -> "exit"
      [] OTHER -> str

\* dict.get(key, default)
Get(data, key, default) ==
    IF key \in DOMAIN data THEN data[key] ELSE default

Restrict(f, D) == [k \in D |-> f[k]]

\* the JSON objects a message may carry: any subset of the five keys
JsonObjects ==
    {Restrict(full, D) :
        full \in [action : {"open", "OPEN", "close", NotAString},
                  barrier : {"entry", "exit", "Entry", "garage", NotAString},
                  userId : {"U1"},
                  slotNumber : {7},
                  timestamp : {"2025-01-01T00:00:00"}],
        D \in SUBSET {"action", "barrier", "userId", "slotNumber", "timestamp"}}

EmptyObject == Restrict([action |-> "open"], {})

\* what the broker may deliver: bytes that are not UTF-8, text that is not
\* JSON, JSON that is not an object, and JSON objects
Messages ==
    {[topic |-> t, form |-> f, data |-> EmptyObject] :
        t \in {MQTT_TOPIC_DOOR_OPEN, "other"},
        f \in {"undecodable", "not_json", "json_array"}}
    \cup
    {[topic |-> t, form |-> "json_object", data |-> d] :
        t \in {MQTT_TOPIC_DOOR_OPEN, "other"}, d \in JsonObjects}

NoMessage == [topic |-> "none", form |-> "none", data |-> EmptyObject]

NoArgs == <<"", "", 0, "">>

Dropped(outcome) == [outcome |-> outcome, args |-> NoArgs]

\* _handle_door_command with the test of the action left out
DoorCommandAnyAction(payload) ==
    IF payload.form = "not_json" THEN Dropped("invalid_json")
    ELSE IF payload.form # "json_object" THEN Dropped("error")
    ELSE LET data == payload.data
             raw_action == Get(data, "action", "")
             raw_barrier == Get(data, "barrier", "")
         IN IF ~IsStr(raw_action) \/ ~IsStr(raw_barrier) THEN Dropped("error")
            ELSE [outcome |-> "dispatch",
                  args |-> <<Lower(raw_barrier), Get(data, "userId", "Unknown"),
                             Get(data, "slotNumber", 0),
                             Get(data, "timestamp", "")>>]

\* _handle_door_command with the slot number never read from the message
DoorCommandSlotDefault(payload) ==
    IF payload.form = "not_json" THEN Dropped("invalid_json")
    ELSE IF payload.form # "json_object" THEN Dropped("error")
    ELSE LET data == payload.data
             raw_action == Get(data, "action", "")
             raw_barrier == Get(data, "barrier", "")
         IN IF ~IsStr(raw_action) \/ ~IsStr(raw_barrier) THEN Dropped("error")
            ELSE IF Lower(raw_action) = "open"
                 THEN [outcome |-> "dispatch",
                       args |-> <<Lower(raw_barrier),
                                  Get(data, "userId", "Unknown"), 0,
                                  Get(data, "timestamp", "")>>]
                 ELSE Dropped("unknown_action")

\* _handle_door_command, lines 125-146: json.loads raises JSONDecodeError on
\* text that is not JSON (line 143); .get on a value that is not a dict and
\* .lower() on a value that is not a string raise AttributeError (line 145);
\* otherwise the callback is invoked exactly when the lowered action is "open",
\* with the lowered barrier and the defaulted user id, slot number, timestamp
DoorCommand(payload) ==
    IF payload.form = "not_json" THEN Dropped("invalid_json")
    ELSE IF payload.form # "json_object" THEN Dropped("error")
    ELSE LET data == payload.data
             raw_action == Get(data, "action", "")
             raw_barrier == Get(data, "barrier", "")
         IN IF ~IsStr(raw_action) \/ ~IsStr(raw_barrier) THEN Dropped("error")
            ELSE IF Lower(raw_action) = "open"
                 THEN [outcome |-> "dispatch",
                       args |-> <<Lower(raw_barrier),
                                  Get(data, "userId", "Unknown"),
                                  Get(data, "slotNumber", 0),
                                  Get(data, "timestamp", "")>>]
                 ELSE Dropped("unknown_action")

\* main.py lines 100-106: the display call on_door_command makes
DisplayCall(barrier_type, user_id, slot_number) ==
    IF barrier_type = "entry" THEN <<"show_welcome", slot_number, user_id>>
    ELSE IF barrier_type = "exit" THEN <<"show_thank_you", 0, "">>
    ELSE <<"none", 0, "">>

NoDisplayCall == <<"none", 0, "">>

(***************************************************************************)
(* MQTTHandler: the network loop and the callback it runs                  *)
(***************************************************************************)
MqttInit ==
    /\ mq_phase = "constructed"
    /\ mq_pc = "idle"
    /\ mq_msg = NoMessage
    /\ messages_received = 0
    /\ door_cb_count = 0
    /\ door_cb_args = NoArgs
    /\ open_requests = {}
    /\ lcd = NoDisplayCall
    /\ disp_available = FALSE
    /\ disp_lock = "free"
    /\ open_outcome = "not_called"
    /\ open_moved_results = {}
    /\ open_failed_results = {}

\* mqtt_handler.py setup(), lines 36-70, and _on_connect: connected, the network
\* loop started and subscribed to the door topic
MqttSetup ==
    /\ mq_phase = "constructed"
    /\ mq_phase' = "connected"
    /\ UNCHANGED <<mq_pc, mq_msg, messages_received, door_cb_count,
                   door_cb_args, open_requests, lcd>>
    /\ UNCHANGED <<disp_available, disp_lock, open_outcome,
                   open_moved_results, open_failed_results>>
    /\ UNCHANGED notMqVars

\* setup() returning False (timeout or exception): main() exits
MqttSetupFails ==
    /\ mq_phase = "constructed"
    /\ mq_phase' = "setup_failed"
    /\ UNCHANGED <<mq_pc, mq_msg, messages_received, door_cb_count,
                   door_cb_args, open_requests, lcd>>
    /\ UNCHANGED <<disp_available, disp_lock, open_outcome,
                   open_moved_results, open_failed_results>>
    /\ UNCHANGED notMqVars

\* main.py setup(), lines 144-147: self.display assigned, display.setup()
\* entered
MainCreateDisplay ==
    /\ mq_phase = "connected"
    /\ mq_phase' = "display_setup"
    /\ UNCHANGED <<mq_pc, mq_msg, messages_received, door_cb_count,
                   door_cb_args, open_requests, lcd>>
    /\ UNCHANGED <<disp_available, disp_lock, open_outcome,
                   open_moved_results, open_failed_results>>
    /\ UNCHANGED notMqVars

\* display_handler.py setup(), lines 55-64 and 75-79: CharLCD raises, the
\* display is marked unavailable and setup() returns True
DisplaySetupLcdFails ==
    /\ mq_phase = "display_setup"
    /\ mq_phase' = "display_ready"
    /\ disp_available' = FALSE
    /\ UNCHANGED <<mq_pc, mq_msg, messages_received, door_cb_count,
                   door_cb_args, open_requests, lcd>>
    /\ UNCHANGED <<disp_lock, open_outcome, open_moved_results,
                   open_failed_results>>
    /\ UNCHANGED notMqVars

\* setup(), lines 66-69, and show_startup(), lines 85-98: the display marked
\* available, the lock taken and the startup message written; line 99 then
\* calls clear(), which waits for the lock show_startup is holding, so the main
\* thread goes no further unless a write raises (DisplayShowStartupFails)
DisplayShowStartup ==
    /\ mq_phase = "display_setup"
    /\ disp_lock = "free"
    /\ mq_phase' = "display_startup"
    /\ disp_available' = TRUE
    /\ disp_lock' = "main"
    /\ UNCHANGED <<mq_pc, mq_msg, messages_received, door_cb_count,
                   door_cb_args, open_requests, lcd>>
    /\ UNCHANGED <<open_outcome, open_moved_results, open_failed_results>>
    /\ UNCHANGED notMqVars

\* show_startup(), line 99: self.clear() called inside the with-block;
\* clear(), line 241, waits for self.lock, a threading.Lock the calling
\* thread holds, so the call never returns
DisplayStartupClear ==
    /\ mq_phase = "display_startup"
    /\ disp_lock = "main"
    /\ mq_phase' = "display_clear"
    /\ UNCHANGED <<mq_pc, mq_msg, messages_received, door_cb_count,
                   door_cb_args, open_requests, lcd>>
    /\ UNCHANGED <<disp_available, disp_lock, open_outcome,
                   open_moved_results, open_failed_results>>
    /\ UNCHANGED notMqVars

\* show_startup(), lines 90-95 raising: the with-block releases the lock, line
\* 101 logs, setup() returns True
DisplayShowStartupFails ==
    /\ mq_phase = "display_startup"
    /\ mq_phase' = "display_ready"
    /\ disp_lock' = "free"
    /\ UNCHANGED <<mq_pc, mq_msg, messages_received, door_cb_count,
                   door_cb_args, open_requests, lcd>>
    /\ UNCHANGED <<disp_available, open_outcome, open_moved_results,
                   open_failed_results>>
    /\ UNCHANGED notMqVars

\* main.py setup(), lines 151-156: self.barriers assigned
MainSetupBarriers ==
    /\ mq_phase = "display_ready"
    /\ mq_phase' = "barriers_ready"
    /\ UNCHANGED <<mq_pc, mq_msg, messages_received, door_cb_count,
                   door_cb_args, open_requests, lcd>>
    /\ UNCHANGED <<disp_available, disp_lock, open_outcome,
                   open_moved_results, open_failed_results>>
    /\ UNCHANGED notMqVars

MqttLoopRuns ==
    mq_phase \in {"connected", "display_setup", "display_startup",
                  "display_clear",
                  "display_ready", "barriers_ready"}

\* main.py line 100: self.display is set
DisplayExists ==
    mq_phase \in {"display_setup", "display_startup", "display_clear",
                  "display_ready",
                  "barriers_ready", "stopped"}

\* main.py line 96: self.barriers is set
BarriersExist == mq_phase \in {"barriers_ready", "stopped"}

\* the network loop hands a message to _on_message
MqttReceive(msg) ==
    /\ MqttLoopRuns
    /\ mq_pc = "idle"
    /\ messages_received < MaxMessages
    /\ mq_msg' = msg
    /\ mq_pc' = "on_message"
    /\ door_cb_count' = 0
    /\ door_cb_args' = NoArgs
    /\ open_requests' = {}
    /\ lcd' = NoDisplayCall
    /\ UNCHANGED <<mq_phase, messages_received>>
    /\ open_outcome' = "not_called"
    /\ UNCHANGED <<disp_available, disp_lock, open_moved_results,
                   open_failed_results>>
    /\ UNCHANGED notMqVars

\* _on_message, lines 99-111: payload decoded, the counter incremented, a
\* message of the door topic handed to _handle_door_command; a payload that is
\* not UTF-8 raises at line 101 and is logged at line 111
MqttOnMessage ==
    /\ mq_pc = "on_message"
    /\ IF mq_msg.form = "undecodable"
       THEN /\ mq_pc' = "idle"
            /\ UNCHANGED messages_received
       ELSE /\ messages_received' = messages_received + 1
            /\ mq_pc' = IF mq_msg.topic = MQTT_TOPIC_DOOR_OPEN
                        THEN "handle" ELSE "idle"
    /\ UNCHANGED <<mq_phase, mq_msg, door_cb_count, door_cb_args,
                   open_requests, lcd>>
    /\ UNCHANGED <<disp_available, disp_lock, open_outcome,
                   open_moved_results, open_failed_results>>
    /\ UNCHANGED notMqVars

\* _handle_door_command, lines 125-146, up to the invocation of the callback
MqttHandleDoorCommand ==
    /\ mq_pc = "handle"
    /\ LET cmd == DoorCommand(mq_msg)
       IN IF cmd.outcome = "dispatch"
          THEN /\ door_cb_count' = door_cb_count + 1
               /\ door_cb_args' = cmd.args
               /\ mq_pc' = "cb_open"
          ELSE /\ mq_pc' = "idle"
               /\ UNCHANGED <<door_cb_count, door_cb_args>>
    /\ UNCHANGED <<mq_phase, mq_msg, messages_received, open_requests, lcd>>
    /\ UNCHANGED <<disp_available, disp_lock, open_outcome,
                   open_moved_results, open_failed_results>>
    /\ UNCHANGED notMqVars

\* what an open_barrier(barrier_type) call can do: move the barrier, fail in
\* the actuation, or log the unknown barrier type (barrier_handler.py lines
\* 148-164)
OpenOutcomes(barrier_type) ==
    IF barrier_type \in Lanes THEN {"moved", "failed"} ELSE {"unknown_lane"}

\* on_door_command, main.py lines 96-97: open_barrier(barrier_type, user_id)
\* if the barrier handler exists; its return value is dropped
OnDoorCommandOpen ==
    /\ mq_pc = "cb_open"
    /\ IF BarriersExist
       THEN /\ open_requests' =
                  open_requests \cup {<<door_cb_args[1], door_cb_args[2]>>}
            /\ \E outcome \in OpenOutcomes(door_cb_args[1]) :
                  /\ open_outcome' = outcome
                  /\ open_moved_results' =
                        IF outcome = "moved"
                        THEN open_moved_results \cup {ReturnValue}
                        ELSE open_moved_results
                  /\ open_failed_results' =
                        IF outcome = "failed"
                        THEN open_failed_results \cup {ReturnValue}
                        ELSE open_failed_results
       ELSE UNCHANGED <<open_requests, open_outcome, open_moved_results,
                        open_failed_results>>
    /\ mq_pc' = "cb_display"
    /\ UNCHANGED <<mq_phase, mq_msg, messages_received, door_cb_count,
                   door_cb_args, lcd, disp_available, disp_lock>>
    /\ UNCHANGED notMqVars

\* on_door_command, main.py lines 100-106: the display call, if the display
\* handler exists; show_welcome and show_thank_you take the display lock
\* (display_handler.py lines 113, 148)
OnDoorCommandDisplay ==
    /\ mq_pc = "cb_display"
    /\ IF DisplayExists /\ door_cb_args[1] \in Lanes
       THEN /\ disp_lock = "free"
            /\ lcd' = DisplayCall(door_cb_args[1], door_cb_args[2],
                                  door_cb_args[3])
       ELSE UNCHANGED lcd
    /\ mq_pc' = "idle"
    /\ UNCHANGED <<mq_phase, mq_msg, messages_received, door_cb_count,
                   door_cb_args, open_requests>>
    /\ UNCHANGED <<disp_available, disp_lock, open_outcome,
                   open_moved_results, open_failed_results>>
    /\ UNCHANGED notMqVars

\* mqtt_handler.py cleanup(), lines 234-243: loop_stop() waits for the network
\* thread, which finishes the message it is working on
MqttCleanup ==
    /\ mq_phase = "barriers_ready"
    /\ mq_pc = "idle"
    /\ mq_phase' = "stopped"
    /\ UNCHANGED <<mq_pc, mq_msg, messages_received, door_cb_count,
                   door_cb_args, open_requests, lcd>>
    /\ UNCHANGED <<disp_available, disp_lock, open_outcome,
                   open_moved_results, open_failed_results>>
    /\ UNCHANGED notMqVars

\* the message has been through _on_message and _handle_door_command and
\* whatever the callback did
Processed == mq_msg # NoMessage /\ mq_pc = "idle"

\* a command of the door topic: a JSON object whose action reads "open"
OpenCommand(msg) ==
    /\ msg.topic = MQTT_TOPIC_DOOR_OPEN
    /\ msg.form = "json_object"
    /\ "action" \in DOMAIN msg.data
    /\ msg.data["action"] = "open"
    /\ "barrier" \in DOMAIN msg.data

\* C14: a remote command whose barrier field is not one of the two known lanes
\* (e.g. "garage") is rejected: the door-command callback is not invoked for it
\* and nothing is dispatched to the barrier or the display.
C14_UnknownLaneRejected ==
    (/\ OpenCommand(mq_msg)
     /\ IsStr(mq_msg.data["barrier"])
     /\ Lower(mq_msg.data["barrier"]) \notin Lanes) =>
        /\ door_cb_count = 0
        /\ open_requests = {}
        /\ lcd = NoDisplayCall

\* a message the claim C15 names: not parseable JSON, not a JSON object,
\* without the action field, or with an action that is not the open action
NotAnOpenCommand(msg) ==
    \/ msg.form \in {"undecodable", "not_json", "json_array"}
    \/ /\ msg.form = "json_object"
       /\ \/ "action" \notin DOMAIN msg.data
          \/ msg.data["action"] \in {"close", NotAString}

\* C15: a remote message that is not parseable JSON, is not a JSON object,
\* lacks the action field, or has an action other than the open action is
\* dropped: the callback is not invoked, nothing reaches the barrier or the
\* display, and the network loop goes back to waiting for the next message.
C15_BadMessageDropped ==
    /\ NotAnOpenCommand(mq_msg) =>
          /\ door_cb_count = 0
          /\ open_requests = {}
          /\ lcd = NoDisplayCall
          /\ mq_pc \in {"on_message", "handle", "idle"}
    /\ [][(NotAnOpenCommand(mq_msg) /\ mq_pc # "idle" /\ mq_pc' # mq_pc) =>
             \/ mq_pc = "on_message" /\ mq_pc' = "handle"
             \/ mq_pc' = "idle" /\ (MqttLoopRuns => MqttLoopRuns')
         ]_vars

\* a second message, with action "close", has been through the handler: it was
\* dropped and the network loop is idle and running
C15_Witness ==
    /\ Processed
    /\ MqttLoopRuns
    /\ messages_received = 2
    /\ mq_msg.topic = MQTT_TOPIC_DOOR_OPEN
    /\ mq_msg.form = "json_object"
    /\ "action" \in DOMAIN mq_msg.data
    /\ mq_msg.data["action"] = "close"
    /\ door_cb_count = 0

\* a well-formed command: action "open", barrier "entry" or "exit", a user id
\* and a slot number
WellFormed(msg) ==
    /\ OpenCommand(msg)
    /\ msg.data["barrier"] \in Lanes
    /\ "userId" \in DOMAIN msg.data
    /\ "slotNumber" \in DOMAIN msg.data

\* C16: a well-formed command with action "open" and barrier "entry" or "exit"
\* received on the command topic is dispatched exactly once, carrying exactly
\* the message's lane, userId and slotNumber.
C16_DispatchedOnce ==
    (WellFormed(mq_msg) /\ mq_pc \notin {"on_message", "handle"}) =>
        /\ door_cb_count = 1
        /\ door_cb_args[1] = mq_msg.data["barrier"]
        /\ door_cb_args[2] = mq_msg.data["userId"]
        /\ door_cb_args[3] = mq_msg.data["slotNumber"]

\* the command barrier "exit", userId "U1", slotNumber 7 has been processed
C16_Witness ==
    /\ Processed
    /\ WellFormed(mq_msg)
    /\ mq_msg.data["barrier"] = "exit"
    /\ door_cb_count = 1
    /\ door_cb_args[1] = "exit"
    /\ door_cb_args[2] = "U1"
    /\ door_cb_args[3] = 7

\* a command of the door topic whose action reads open in any case and whose
\* barrier reads entry or exit in any case
OpenCommandAnyCase(msg) ==
    /\ msg.topic = MQTT_TOPIC_DOOR_OPEN
    /\ msg.form = "json_object"
    /\ "action" \in DOMAIN msg.data
    /\ msg.data["action"] \in {"open", "OPEN"}
    /\ "barrier" \in DOMAIN msg.data
    /\ msg.data["barrier"] \in {"entry", "Entry", "exit"}

\* C39: command parsing normalises and defaults fields: action and barrier are
\* compared case-insensitively ("OPEN" / "Entry" are accepted as open / entry),
\* and an otherwise valid open command that lacks userId or slotNumber is
\* still dispatched, with user "Unknown" and slot number 0 respectively.
C39_NormalisedAndDefaulted ==
    (OpenCommandAnyCase(mq_msg) /\ mq_pc \notin {"on_message", "handle"}) =>
        /\ door_cb_count = 1
        /\ door_cb_args[1] =
              IF mq_msg.data["barrier"] \in {"entry", "Entry"} THEN "entry"
              ELSE "exit"
        /\ door_cb_args[2] =
              IF "userId" \in DOMAIN mq_msg.data THEN mq_msg.data["userId"]
              ELSE "Unknown"
        /\ door_cb_args[3] =
              IF "slotNumber" \in DOMAIN mq_msg.data
              THEN mq_msg.data["slotNumber"]
              ELSE 0

\* the command {"action": "OPEN", "barrier": "Entry"}, with no userId and no
\* slotNumber, has been processed and dispatched for the entry lane
C39_Witness ==
    /\ Processed
    /\ mq_msg.topic = MQTT_TOPIC_DOOR_OPEN
    /\ mq_msg.form = "json_object"
    /\ DOMAIN mq_msg.data = {"action", "barrier"}
    /\ mq_msg.data["action"] = "OPEN"
    /\ mq_msg.data["barrier"] = "Entry"
    /\ door_cb_count = 1
    /\ door_cb_args = <<"entry", "Unknown", 0, "">>

\* C13: an actuation failure inside open_barrier is surfaced to the caller:
\* the value the caller receives after a failed actuation is never a value it
\* receives after the barrier was moved.
C13_FailureDistinguished ==
    open_moved_results \cap open_failed_results = {}

\* a command of the door topic that fails validation: not JSON, not an object,
\* no action, or an action that is not the open action
FailsValidation(msg) ==
    /\ msg.topic = MQTT_TOPIC_DOOR_OPEN
    /\ NotAnOpenCommand(msg)

\* C28: when a requested barrier open fails (actuation error) or a remote
\* command fails validation, the failure is reflected on the display through
\* show_error, and the welcome or thank-you message is not shown for a barrier
\* that did not open.
C28_FailureShownAsError ==
    (Processed /\ mq_phase = "barriers_ready"
        /\ (open_outcome = "failed" \/ FailsValidation(mq_msg))) =>
        lcd[1] = "show_error"

\* C30: for every dispatched remote command for lane L, the coordinator first
\* calls open_barrier(L, user_id) and only then instructs the display:
\* show_welcome with the command's slot number when L is entry, show_thank_you
\* when L is exit, never the message of the other lane.
C30_OpenThenDisplay ==
    /\ mq_pc = "cb_display" =>
          open_requests = {<<door_cb_args[1], door_cb_args[2]>>}
    /\ lcd # NoDisplayCall =>
          /\ open_requests = {<<door_cb_args[1], door_cb_args[2]>>}
          /\ door_cb_args[1] = "entry" =>
                lcd = <<"show_welcome", door_cb_args[3], door_cb_args[2]>>
          /\ door_cb_args[1] = "exit" => lcd[1] = "show_thank_you"
          /\ door_cb_args[1] \in Lanes

\* C35: no thread ever tries to acquire a non-reentrant handler lock that it
\* already holds, so every handler operation terminates, DisplayHandler.setup()
\* with an available display included (show_startup followed by clear), and
\* system setup can complete.
C35_NoLockReacquired ==
    ~(mq_phase = "display_clear" /\ disp_lock = "main")

NextMqtt ==
    \/ MqttSetup
    \/ MqttSetupFails
    \/ MainCreateDisplay
    \/ DisplaySetupLcdFails
    \/ DisplayShowStartup
    \/ DisplayStartupClear
    \/ DisplayShowStartupFails
    \/ MainSetupBarriers
    \/ \E msg \in Messages : MqttReceive(msg)
    \/ MqttOnMessage
    \/ MqttHandleDoorCommand
    \/ OnDoorCommandOpen
    \/ OnDoorCommandDisplay
    \/ MqttCleanup

(***************************************************************************)
(* main.py: the main thread from setup() to the end of stop()              *)
(***************************************************************************)
\* the most signals delivered in one run
MaxSignals == 2

\* setup(), lines 136-170: the order in which the handlers are set up
SetupOrder == <<"mqtt", "display", "barriers", "slots", "cameras">>

\* stop(), lines 257-270: the order in which the handlers are cleaned up
StopOrder == <<"cameras", "slots", "barriers", "display", "mqtt">>

\* the driver handles a handler's cleanup() releases, in the order of the calls:
\* camera_handler.py lines 191-198, barrier_handler.py lines 243-250,
\* display_handler.py line 282, mqtt_handler.py lines 239-241; the slot handler
\* leaves GPIO to the barrier handler (slot_handler.py line 224)
HandlesOf(component) ==
    CASE component = "cameras" -> <<"entry_camera", "exit_camera">>
      [] component = "slots" -> <<>>
      [] component = "barriers" -> <<"entry_pwm", "exit_pwm", "gpio">>
      [] component = "display" -> <<"lcd">>
      [] component = "mqtt" -> <<"mqtt_client">>

Handles ==
    {"entry_camera", "exit_camera", "entry_pwm", "exit_pwm", "gpio", "lcd",
     "mqtt_client"}

\* the handles among the first k of a handler's that were opened
Prefix(component, k) ==
    {HandlesOf(component)[i] : i \in 1..k} \cap acquired

\* releasing a set of handles
Release(hs) == [h \in Handles |-> IF h \in hs THEN released[h] + 1 ELSE released[h]]

\* how many of its handles a cleanup() can have released when one of its calls
\* raises: release() or cv2.destroyAllWindows() in the camera handler,
\* pwm.stop() or GPIO.cleanup() in the barrier handler, loop_stop() or
\* disconnect() in the MQTT handler; none of these is inside a try
RaisePoints(component) ==
    CASE component = "cameras" -> 0..2
      [] component = "barriers" -> 0..2
      [] component = "mqtt" -> {0}
      [] OTHER -> {}

\* the threads start() launches, main.py lines 179-194: the auto-close
\* watchdog, the slot monitor and the two camera monitors
PollingThreads == {"watchdog", "slot_monitor", "camera_entry", "camera_exit"}

ShutdownInit ==
    /\ main_pc = "setup"
    /\ main_step = 1
    /\ acquired = {}
    /\ released = [h \in Handles |-> 0]
    /\ steps_run = <<>>
    /\ failed_steps = {}
    /\ signals = 0
    /\ trigger = "none"
    /\ sig_in_stop = FALSE
    /\ setup_log = <<>>
    /\ failed_setup = "none"
    /\ threads_started = {}
    /\ exit_status = "none"

\* setup(), lines 136-170: one handler set up; the display handler opens the
\* LCD or goes on without it (display_handler.py lines 77-81)
MainSetupStep ==
    /\ main_pc = "setup"
    /\ LET component == SetupOrder[main_step]
       IN  \/ acquired' = acquired \cup
                  {HandlesOf(component)[i] : i \in 1..Len(HandlesOf(component))}
           \/ /\ component = "display"
              /\ UNCHANGED acquired
    /\ IF main_step = Len(SetupOrder)
       THEN main_pc' = "start" /\ main_step' = 0
       ELSE main_step' = main_step + 1 /\ UNCHANGED main_pc
    /\ UNCHANGED <<released, steps_run, failed_steps, signals, trigger,
                   sig_in_stop>>
    /\ setup_log' = Append(setup_log, SetupOrder[main_step])
    /\ UNCHANGED <<failed_setup, threads_started, exit_status>>
    /\ UNCHANGED notShutVars

\* a failed setup() that main() passes over: the next handler is set up
MainSetupFailsIgnored ==
    /\ main_pc = "setup"
    /\ SetupOrder[main_step] # "display"
    /\ setup_log' = Append(setup_log, SetupOrder[main_step])
    /\ failed_setup' = SetupOrder[main_step]
    /\ IF main_step = Len(SetupOrder)
       THEN main_pc' = "start" /\ main_step' = 0
       ELSE main_step' = main_step + 1 /\ UNCHANGED main_pc
    /\ UNCHANGED <<acquired, released, steps_run, failed_steps, signals,
                   trigger, sig_in_stop, threads_started, exit_status>>
    /\ UNCHANGED notShutVars

\* setup() returns False and main() calls sys.exit(1), lines 291-293; the
\* display handler's setup() never returns False
MainSetupFails ==
    /\ main_pc = "setup"
    /\ SetupOrder[main_step] # "display"
    /\ main_pc' = "exited"
    /\ main_step' = 0
    /\ UNCHANGED <<acquired, released, steps_run, failed_steps, signals,
                   trigger, sig_in_stop>>
    /\ setup_log' = Append(setup_log, SetupOrder[main_step])
    /\ failed_setup' = SetupOrder[main_step]
    /\ exit_status' = 1
    /\ UNCHANGED threads_started
    /\ UNCHANGED notShutVars

\* start(), lines 175-200, and the entry into run()
MainStart ==
    /\ main_pc = "start"
    /\ main_pc' = "run"
    /\ UNCHANGED <<main_step, acquired, released, steps_run, failed_steps,
                   signals, trigger, sig_in_stop>>
    /\ threads_started' = PollingThreads
    /\ UNCHANGED <<setup_log, failed_setup, exit_status>>
    /\ UNCHANGED notShutVars

\* run(), lines 216-219: an exception in the main loop is logged and the
\* finally clause calls stop()
MainLoopError ==
    /\ main_pc = "run"
    /\ main_pc' = "stop"
    /\ main_step' = 1
    /\ trigger' = "error"
    /\ UNCHANGED <<acquired, released, steps_run, failed_steps, signals,
                   sig_in_stop>>
    /\ UNCHANGED <<setup_log, failed_setup, threads_started, exit_status>>
    /\ UNCHANGED notShutVars

\* signal_handler, lines 275-279, while main() is in setup() or start():
\* sys.exit(0) raises SystemExit, nothing catches it and no finally clause is
\* active, so the interpreter exits
SignalInSetup ==
    /\ main_pc \in {"setup", "start"}
    /\ signals < MaxSignals
    /\ signals' = signals + 1
    /\ trigger' = "signal"
    /\ main_pc' = "exited"
    /\ main_step' = 0
    /\ UNCHANGED <<acquired, released, steps_run, failed_steps, sig_in_stop>>
    /\ exit_status' = 0
    /\ UNCHANGED <<setup_log, failed_setup, threads_started>>
    /\ UNCHANGED notShutVars

\* signal_handler while run() is in its loop: SystemExit passes the two except
\* clauses and the finally clause calls stop()
SignalInRun ==
    /\ main_pc = "run"
    /\ signals < MaxSignals
    /\ signals' = signals + 1
    /\ trigger' = "signal"
    /\ main_pc' = "stop"
    /\ main_step' = 1
    /\ UNCHANGED <<acquired, released, steps_run, failed_steps, sig_in_stop>>
    /\ UNCHANGED <<setup_log, failed_setup, threads_started, exit_status>>
    /\ UNCHANGED notShutVars

\* signal_handler while stop() runs: SystemExit is raised in the main thread
\* where it stands, before the next cleanup() is entered or inside it after
\* some of its releases, and leaves stop()
SignalInStop ==
    /\ main_pc = "stop"
    /\ signals < MaxSignals
    /\ signals' = signals + 1
    /\ sig_in_stop' = TRUE
    /\ LET component == StopOrder[main_step]
       IN  \E entered \in BOOLEAN :
           \E k \in 0..(IF entered THEN Len(HandlesOf(component)) ELSE 0) :
              /\ released' = Release(Prefix(component, k))
              /\ steps_run' = IF entered THEN Append(steps_run, component)
                              ELSE steps_run
    /\ main_pc' = "exited"
    /\ main_step' = 0
    /\ UNCHANGED <<acquired, failed_steps, trigger>>
    /\ exit_status' = 0
    /\ UNCHANGED <<setup_log, failed_setup, threads_started>>
    /\ UNCHANGED notShutVars

\* stop(), lines 257-270: one cleanup() runs to its end
CleanupStep ==
    /\ main_pc = "stop"
    /\ LET component == StopOrder[main_step]
       IN  /\ released' = Release(Prefix(component, Len(HandlesOf(component))))
           /\ steps_run' = Append(steps_run, component)
    /\ IF main_step = Len(StopOrder)
       THEN main_pc' = "stop_return" /\ main_step' = 0
       ELSE main_step' = main_step + 1 /\ UNCHANGED main_pc
    /\ UNCHANGED <<acquired, failed_steps, signals, trigger, sig_in_stop>>
    /\ UNCHANGED <<setup_log, failed_setup, threads_started, exit_status>>
    /\ UNCHANGED notShutVars

\* a call inside cameras.cleanup(), barriers.cleanup() or mqtt.cleanup()
\* raises: stop() has no try (lines 251-272), the exception leaves stop() and
\* run()'s finally clause, and main() ends with it
CleanupStepRaises ==
    /\ main_pc = "stop"
    /\ LET component == StopOrder[main_step]
       IN  \E k \in RaisePoints(component) :
              /\ released' = Release(Prefix(component, k))
              /\ steps_run' = Append(steps_run, component)
              /\ failed_steps' = failed_steps \cup {component}
    /\ main_pc' = "exited"
    /\ main_step' = 0
    /\ UNCHANGED <<acquired, signals, trigger, sig_in_stop>>
    /\ exit_status' = 1
    /\ UNCHANGED <<setup_log, failed_setup, threads_started>>
    /\ UNCHANGED notShutVars

\* display_handler.py lines 277-288: an LCD call of display.cleanup() raises
\* before lcd.close(); the except clause logs it and cleanup() returns
DisplayCleanupFails ==
    /\ main_pc = "stop"
    /\ StopOrder[main_step] = "display"
    /\ "lcd" \in acquired
    /\ steps_run' = Append(steps_run, "display")
    /\ failed_steps' = failed_steps \cup {"display"}
    /\ main_step' = main_step + 1
    /\ UNCHANGED <<main_pc, acquired, released, signals, trigger, sig_in_stop>>
    /\ UNCHANGED <<setup_log, failed_setup, threads_started, exit_status>>
    /\ UNCHANGED notShutVars

\* stop() returns (line 272) and run() and main() with it
StopReturns ==
    /\ main_pc = "stop_return"
    /\ main_pc' = "exited"
    /\ UNCHANGED <<main_step, acquired, released, steps_run, failed_steps,
                   signals, trigger, sig_in_stop>>
    /\ exit_status' = 0
    /\ UNCHANGED <<setup_log, failed_setup, threads_started>>
    /\ UNCHANGED notShutVars

\* the main thread has left main()
MainEnded == main_pc = "exited"

\* C24: during shutdown a failure in one cleanup step never aborts the
\* remaining steps: whichever cleanup step fails, every later step of stop()
\* still runs.
C24_FailureDoesNotAbort ==
    (MainEnded /\ failed_steps # {} /\ ~sig_in_stop) => steps_run = StopOrder

\* C25: whatever triggers shutdown (a signal, an error in the main loop, a
\* second signal while shutdown is in progress), stop() runs the cleanup steps
\* in the order cameras, slots, barriers, display, MQTT, and each driver handle
\* that was opened is released exactly once.
C25_OrderedAndReleasedOnce ==
    (MainEnded /\ trigger # "none" /\ failed_steps = {}) =>
        /\ steps_run = StopOrder
        /\ \A h \in Handles : released[h] = IF h \in acquired THEN 1 ELSE 0

\* the components set up before and including component c, in setup()'s order
SetupUpTo(c) ==
    SubSeq(SetupOrder, 1, CHOOSE k \in 1..Len(SetupOrder) : SetupOrder[k] = c)

\* C34: if the setup of a component fails (the MQTT, barrier, slot or camera
\* handler returns failure), the startup sequence stops there: no later
\* component is set up, start() is never called, no slot-monitor, camera or
\* watchdog thread is started, and the process exits with a failure status.
C34_SetupFailureStopsStartup ==
    failed_setup # "none" =>
        /\ main_pc = "exited"
        /\ setup_log = SetupUpTo(failed_setup)
        /\ threads_started = {}
        /\ steps_run = <<>>
        /\ exit_status = 1

\* the barrier handler's setup() failed after the MQTT and display handlers
\* were set up: main() has exited with status 1 and no thread was started
C34_Witness ==
    /\ failed_setup = "barriers"
    /\ setup_log = <<"mqtt", "display", "barriers">>
    /\ "mqtt_client" \in acquired
    /\ main_pc = "exited"
    /\ exit_status = 1
    /\ threads_started = {}

NextShutdown ==
    \/ MainSetupStep
    \/ MainSetupFails
    \/ MainStart
    \/ MainLoopError
    \/ SignalInSetup
    \/ SignalInRun
    \/ SignalInStop
    \/ CleanupStep
    \/ CleanupStepRaises
    \/ DisplayCleanupFails
    \/ StopReturns

(***************************************************************************)
(* MQTTHandler: the publisher, with the threads that call it               *)
(***************************************************************************)
\* the most rewrites of the slot table the model follows
MaxChanges == 2

\* the most QR detections the model lets the cameras publish
MaxQrPublishes == 1

MQTT_TOPIC_SLOT_STATUS == "parking/rpi/status"

MQTT_TOPIC_QR_DETECTED == "parking/rpi/qr"

\* the sensor readings used: the first sensor varies, the others are free
Readings ==
    {r \in [Sensors -> BOOLEAN] : \A i \in Sensors \ {0} : ~r[i]}

\* the slot-status payload with slot numbers counted from 0
SlotStatusPayloadFromZero(slot_states, timestamp) ==
    [slots |-> [n \in 1..TOTAL_SLOTS |->
                   [slotNumber |-> n - 1,
                    status |-> IF slot_states[n - 1] THEN "occupied"
                               ELSE "available"]],
     timestamp |-> timestamp]

\* publish_slot_status, lines 160-173: one entry per i in range(TOTAL_SLOTS),
\* slotNumber i + 1, status from slot_states[i]
SlotStatusPayload(slot_states, timestamp) ==
    [slots |-> [n \in 1..TOTAL_SLOTS |->
                   [slotNumber |-> n,
                    status |-> IF slot_states[n - 1] THEN "occupied"
                               ELSE "available"]],
     timestamp |-> timestamp]

\* a publish call that hands its message to the client whatever the flag says
PublishResultQueued(is_set, accepted) ==
    IF is_set /\ accepted
    THEN [handed |-> TRUE, counted |-> TRUE, ret |-> "True"]
    ELSE [handed |-> TRUE, counted |-> FALSE, ret |-> "False"]

\* publish_slot_status / publish_qr_detected, lines 156-158 and 180-187 (201-203
\* and 217-224): False at once when connected is clear; otherwise the message
\* goes to client.publish and counts when rc is MQTT_ERR_SUCCESS
PublishResult(is_set, accepted) ==
    IF is_set /\ accepted
    THEN [handed |-> TRUE, counted |-> TRUE, ret |-> "True"]
    ELSE [handed |-> FALSE, counted |-> FALSE, ret |-> "False"]

\* one call of publish_slot_status or publish_qr_detected
Publish(topic, payload, ver) ==
    \E accepted \in BOOLEAN :
        LET id == pub_calls + 1
            r == PublishResult(connected, accepted)
        IN  /\ pub_calls' = id
            /\ client_out' =
                  IF r.handed
                  THEN Append(client_out, [call |-> id, topic |-> topic,
                                           payload |-> payload, ver |-> ver])
                  ELSE client_out
            /\ messages_published' =
                  IF r.counted THEN messages_published + 1
                  ELSE messages_published
            /\ pub_returns' = Append(pub_returns, r.ret)
            /\ dropped_calls' =
                  IF connected THEN dropped_calls ELSE dropped_calls \cup {id}

PublisherInit ==
    /\ connected = FALSE
    /\ messages_published = 0
    /\ client_out = <<>>
    /\ pub_calls = 0
    /\ pub_returns = <<>>
    /\ dropped_calls = {}
    /\ pub_main = "setup"
    /\ pub_real = [i \in Sensors |-> FALSE]
    /\ pub_virtual = [idx \in SlotIndexes |-> TRUE]
    /\ table_ver = 0
    /\ init_snapshot = <<>>
    /\ init_ver = 0
    /\ mon_notify = "idle"
    /\ cb_snapshot = <<>>
    /\ cb_ver = 0
    /\ notified = <<>>
    /\ forwarded = <<>>
    /\ qr_pub_calls = 0

\* _on_connect with rc = 0, lines 76-80: connected.set()
MqttOnConnect ==
    /\ ~connected
    /\ connected' = TRUE
    /\ UNCHANGED <<messages_published, client_out, pub_calls, pub_returns,
                   dropped_calls, pub_main, pub_real, pub_virtual, table_ver,
                   init_snapshot, init_ver, mon_notify, cb_snapshot, cb_ver,
                   notified, forwarded, qr_pub_calls>>
    /\ UNCHANGED notPubVars

\* _on_disconnect, lines 89-92: connected.clear()
MqttOnDisconnect ==
    /\ connected
    /\ connected' = FALSE
    /\ UNCHANGED <<messages_published, client_out, pub_calls, pub_returns,
                   dropped_calls, pub_main, pub_real, pub_virtual, table_ver,
                   init_snapshot, init_ver, mon_notify, cb_snapshot, cb_ver,
                   notified, forwarded, qr_pub_calls>>
    /\ UNCHANGED notPubVars

\* SlotHandler.setup(), slot_handler.py lines 93-103: the sensors read once
\* and the table written from them
PubSlotSetup ==
    /\ pub_main = "setup"
    /\ \E r \in Readings :
          /\ pub_real' = r
          /\ pub_virtual' = UpdateVirtualSlots(r)
    /\ pub_main' = "start_slots"
    /\ UNCHANGED <<connected, messages_published, client_out, pub_calls,
                   pub_returns, dropped_calls, table_ver, init_snapshot,
                   init_ver, mon_notify, cb_snapshot, cb_ver, notified,
                   forwarded, qr_pub_calls>>
    /\ UNCHANGED notPubVars

\* start(), main.py lines 184-185: slots.start() launches the monitor thread
PubStartSlots ==
    /\ pub_main = "start_slots"
    /\ pub_main' = "get_initial"
    /\ UNCHANGED <<connected, messages_published, client_out, pub_calls,
                   pub_returns, dropped_calls, pub_real, pub_virtual,
                   table_ver, init_snapshot, init_ver, mon_notify, cb_snapshot,
                   cb_ver, notified, forwarded, qr_pub_calls>>
    /\ UNCHANGED notPubVars

\* start(), main.py line 188: initial_states = self.slots.get_slot_states()
PubGetInitial ==
    /\ pub_main = "get_initial"
    /\ init_snapshot' = pub_virtual
    /\ init_ver' = table_ver
    /\ pub_main' = "publish_initial"
    /\ UNCHANGED <<connected, messages_published, client_out, pub_calls,
                   pub_returns, dropped_calls, pub_real, pub_virtual,
                   table_ver, mon_notify, cb_snapshot, cb_ver, notified,
                   forwarded, qr_pub_calls>>
    /\ UNCHANGED notPubVars

\* start(), main.py lines 189-190: publish_slot_status(initial_states)
PubInitial ==
    /\ pub_main = "publish_initial"
    /\ Publish(MQTT_TOPIC_SLOT_STATUS, SlotStatusPayload(init_snapshot, now),
               init_ver)
    /\ pub_main' = "running"
    /\ UNCHANGED <<connected, pub_real, pub_virtual, table_ver, init_snapshot,
                   init_ver, mon_notify, cb_snapshot, cb_ver, notified,
                   forwarded, qr_pub_calls>>
    /\ UNCHANGED notPubVars

\* _monitor_sensors, slot_handler.py lines 125-158: a poll that finds a sensor
\* changed stores the reading, rewrites the table and calls the callback with
\* a copy of it
PubMonChange ==
    /\ pub_main \in {"get_initial", "publish_initial", "running"}
    /\ mon_notify = "idle"
    /\ table_ver < MaxChanges
    /\ \E r \in Readings \ {pub_real} :
          /\ pub_real' = r
          /\ pub_virtual' = UpdateVirtualSlots(r)
    /\ table_ver' = table_ver + 1
    /\ cb_snapshot' = pub_virtual'
    /\ cb_ver' = table_ver'
    /\ notified' = Append(notified, <<cb_ver', cb_snapshot'>>)
    /\ mon_notify' = "callback"
    /\ UNCHANGED <<connected, messages_published, client_out, pub_calls,
                   pub_returns, dropped_calls, pub_main, init_snapshot,
                   init_ver, forwarded, qr_pub_calls>>
    /\ UNCHANGED notPubVars

\* on_slot_state_change, main.py lines 108-127: publish_slot_status(slot_states)
\* and the occupancy summary logged
PubMonCallback ==
    /\ mon_notify = "callback"
    /\ Publish(MQTT_TOPIC_SLOT_STATUS, SlotStatusPayload(cb_snapshot, now),
               cb_ver)
    /\ forwarded' = Append(forwarded, <<cb_ver, cb_snapshot>>)
    /\ mon_notify' = "idle"
    /\ UNCHANGED <<connected, pub_main, pub_real, pub_virtual, table_ver,
                   init_snapshot, init_ver, cb_snapshot, cb_ver, notified,
                   qr_pub_calls>>
    /\ UNCHANGED notPubVars

\* on_qr_detected, main.py lines 80-81, from a camera thread:
\* publish_qr_detected(qr_data, camera_type, barrier_type)
PubQrDetected ==
    /\ pub_main = "running"
    /\ qr_pub_calls < MaxQrPublishes
    /\ qr_pub_calls' = qr_pub_calls + 1
    /\ \E qr \in Payloads : \E ch \in Lanes :
          Publish(MQTT_TOPIC_QR_DETECTED, DetectionEvent(qr, ch, ch, now), -1)
    /\ UNCHANGED <<connected, pub_main, pub_real, pub_virtual, table_ver,
                   init_snapshot, init_ver, mon_notify, cb_snapshot, cb_ver,
                   notified, forwarded>>
    /\ UNCHANGED notPubVars

\* the slot-status messages the client accepted
SlotMessages ==
    {i \in DOMAIN client_out : client_out[i].topic = MQTT_TOPIC_SLOT_STATUS}

\* the table copy a slot-status message was built from
SnapshotOf(m) ==
    IF m.ver = 0 THEN init_snapshot ELSE notified[m.ver][2]

\* C31: every change notification from the slot monitor is forwarded to the
\* publisher exactly once with the snapshot it carried, and the published
\* slot-status payload has exactly TOTAL_SLOTS entries numbered
\* 1..TOTAL_SLOTS in order, each with status occupied iff the corresponding
\* table entry is true and available otherwise.
C31_ForwardedOnceWellFormed ==
    /\ forwarded = IF mon_notify = "callback"
                   THEN SubSeq(notified, 1, Len(notified) - 1)
                   ELSE notified
    /\ mon_notify = "callback" =>
          notified[Len(notified)] = <<cb_ver, cb_snapshot>>
    /\ \A i \in SlotMessages :
          LET slots == client_out[i].payload.slots
              snapshot == SnapshotOf(client_out[i])
          IN  /\ DOMAIN slots = 1..TOTAL_SLOTS
              /\ \A n \in 1..TOTAL_SLOTS :
                    /\ slots[n].slotNumber = n
                    /\ slots[n].status =
                          IF snapshot[n - 1] THEN "occupied" ELSE "available"

\* the monitor has notified one change, in which the sensor of slot 2 became
\* free; the callback forwarded it and the message was accepted
C31_Witness ==
    /\ mon_notify = "idle"
    /\ Len(notified) = 1
    /\ forwarded = notified
    /\ \E i \in SlotMessages :
          /\ client_out[i].ver = 1
          /\ ~notified[1][2][1]
          /\ client_out[i].payload.slots[2].status = "available"
          /\ client_out[i].payload.slots[1].status = "occupied"

\* C32: a publish (slot status or QR detection) attempted while the transport
\* is disconnected is dropped: nothing is handed to the client then or after a
\* reconnect, the published-message counter is unchanged, and the call returns
\* a failure value instead of raising.
C32_DisconnectedPublishDropped ==
    /\ [](/\ \A i \in DOMAIN client_out : client_out[i].call \notin dropped_calls
          /\ \A id \in dropped_calls : pub_returns[id] = "False"
          /\ Len(pub_returns) = pub_calls
          /\ \A id \in DOMAIN pub_returns : pub_returns[id] \in {"True", "False"}
          /\ messages_published = Len(client_out))
    /\ [][ /\ (pub_calls' # pub_calls /\ ~connected) =>
                /\ client_out' = client_out
                /\ messages_published' = messages_published
                /\ pub_returns'[pub_calls'] = "False"
           /\ client_out' # client_out =>
                /\ connected
                /\ pub_calls' = pub_calls + 1
                /\ Len(client_out') = Len(client_out) + 1
                /\ client_out'[Len(client_out')].call = pub_calls'
         ]_vars

\* the first publish call was made while disconnected and dropped; after a
\* reconnect a later call was accepted, and it is the only message sent
C32_Witness ==
    /\ 1 \in dropped_calls
    /\ connected
    /\ pub_calls = 2
    /\ Len(client_out) = 1
    /\ client_out[1].call = 2
    /\ messages_published = 1

\* C36: slot-status snapshots are published in the order in which the table
\* took those values: a snapshot is never published after a snapshot of a
\* later state of the table.
C36_PublishedInTableOrder ==
    \A i, j \in SlotMessages :
        i < j => client_out[i].ver <= client_out[j].ver

NextPublisher ==
    \/ MqttOnConnect
    \/ MqttOnDisconnect
    \/ PubSlotSetup
    \/ PubStartSlots
    \/ PubGetInitial
    \/ PubInitial
    \/ PubMonChange
    \/ PubMonCallback
    \/ PubQrDetected

Init ==
    /\ SlotInit /\ ClockInit /\ BarrierInit /\ CameraInit /\ MqttInit
    /\ ShutdownInit
    /\ PublisherInit

NextSlot ==
    \/ SlotSetup
    \/ SlotSetupFails
    \/ SlotStart
    \/ MonLoopTop
    \/ MonReadSensor
    \/ MonReadFails
    \/ MonUpdate
    \/ MonCallback
    \/ MonSleep
    \/ GetSlotStatesCall
    \/ SlotCleanup
    \/ SlotCleanupJoined

SpecSlot == Init /\ [][NextSlot]_vars

SpecBarrier == Init /\ [][NextBarrier]_vars

SpecCamera == Init /\ [][NextCamera]_vars

SpecMqtt == Init /\ [][NextMqtt]_vars

SpecShutdown == Init /\ [][NextShutdown]_vars

SpecPublisher == Init /\ [][NextPublisher]_vars

\* the two monitoring threads are started OS threads, each scheduled again and
\* again whatever the other does
SpecCameraFair ==
    /\ Init /\ [][NextCameraLoops]_vars
    /\ \A ch \in Lanes : WF_vars(CamStep(ch))

Next ==
    \/ NextSlot \/ NextBarrier \/ NextCamera \/ NextMqtt \/ NextShutdown
    \/ NextPublisher

Spec == Init /\ [][Next]_vars

====
